---------------------------- MODULE Spec2Model ----------------------------
(***************************************************************************)
(* TrustLog backend: incident log records with file attachments behind a  *)
(* session gate.  The model follows trustlog_backend/app.py (the          *)
(* application that runs) and notes where auth.py and routes/logs.py      *)
(* differ.                                                                 *)
(*                                                                         *)
(* Text is modelled as follows.  Plain form fields are strings.  A file    *)
(* name and a JSON text are sequences of tokens: a token is either one     *)
(* special character (".", "/", " ", "[", ...) or a maximal run of         *)
(* letters and digits ("report", "pdf").  A path is a sequence of          *)
(* components, the last component of a file path being a file name.        *)
(***************************************************************************)
EXTENDS Integers, Sequences, FiniteSets, TLC

\* Python's None: a value different from every text of the model.
None == "<None>"

(***************************************************************************)
(* Configuration (app.py:14-24, config.py:8-11)                            *)
(***************************************************************************)
UPLOAD_FOLDER == <<"uploads">>

ALLOWED_EXTENSIONS == {"png", "jpg", "jpeg", "gif", "pdf", "doc", "docx", "txt"}

(***************************************************************************)
(* String helpers of Python used by the handlers                           *)
(***************************************************************************)
\* str.lower() on one token.
Lower(tok) ==
    CASE tok = "PDF" -> "pdf"
      [] tok = "Txt" -> "txt"
      [] tok = "EXE" -> "exe"
      [] OTHER -> tok

LowerAll(s) == [i \in 1..Len(s) |-> Lower(s[i])]

\* Positions of the token c in s.
Positions(s, c) == {i \in 1..Len(s) : s[i] = c}

Max(S) == CHOOSE x \in S : \A y \in S : y <= x

\* s.rsplit('.', 1): the parts around the last '.', or the whole text alone.
rsplit_dot(s) ==
    IF Positions(s, ".") = {}
    THEN <<s>>
    ELSE LET k == Max(Positions(s, "."))
         IN <<SubSeq(s, 1, k - 1), SubSeq(s, k + 1, Len(s))>>

\* Whether a text (a token sequence) is one of the words of a set.
InWords(s, words) == Len(s) = 1 /\ s[1] \in words

\* allowed_file(filename): '.' in filename and
\* filename.rsplit('.', 1)[1].lower() in ALLOWED_EXTENSIONS
allowed_file(filename) ==
    /\ Positions(filename, ".") # {}
    /\ InWords(LowerAll(rsplit_dot(filename)[2]), ALLOWED_EXTENSIONS)

(***************************************************************************)
(* werkzeug.utils.secure_filename, as the handlers use it                  *)
(***************************************************************************)
NonAscii == {"\\u00e9"}
PathSeps == {"/"}
\* Tokens the pattern [^A-Za-z0-9_.-] removes.
UnsafeChars == {"\"", "[", "]", ",", "{", "}", "(", ")"}

RECURSIVE StripLeft(_, _)
StripLeft(s, chars) ==
    IF s # <<>> /\ s[1] \in chars THEN StripLeft(Tail(s), chars) ELSE s

RECURSIVE StripRight(_, _)
StripRight(s, chars) ==
    IF s # <<>> /\ s[Len(s)] \in chars
    THEN StripRight(SubSeq(s, 1, Len(s) - 1), chars)
    ELSE s

Strip(s, chars) == StripRight(StripLeft(s, chars), chars)

\* "_".join(s.split()): runs of blanks become one "_", outer blanks go.
RECURSIVE JoinBlanks(_)
JoinBlanks(s) ==
    IF s = <<>> THEN <<>>
    ELSE IF s[1] = " "
         THEN IF Len(s) >= 2 /\ s[2] = " "
              THEN JoinBlanks(Tail(s))
              ELSE <<"_">> \o JoinBlanks(Tail(s))
         ELSE <<s[1]>> \o JoinBlanks(Tail(s))

secure_filename(filename) ==
    LET ascii   == SelectSeq(filename, LAMBDA t : t \notin NonAscii)
        spaced  == [i \in 1..Len(ascii) |->
                        IF ascii[i] \in PathSeps THEN " " ELSE ascii[i]]
        joined  == JoinBlanks(Strip(spaced, {" "}))
        cleaned == SelectSeq(joined, LAMBDA t : t \notin UnsafeChars)
    IN Strip(cleaned, {".", "_"})

(***************************************************************************)
(* json.loads / json.dumps on the texts impact_types can carry             *)
(***************************************************************************)
JsonSpecial == {"[", "]", ",", " ", "\"", "{", "}", "null"}

IsStrAt(t, i) ==
    /\ i + 2 <= Len(t)
    /\ t[i] = "\""
    /\ t[i + 1] \notin JsonSpecial
    /\ t[i + 2] = "\""

JsonError == [kind |-> "error", items |-> <<>>]

\* The elements of a non-empty array body: string literals separated by ",".
RECURSIVE ParseElems(_, _)
ParseElems(t, i) ==
    IF ~IsStrAt(t, i) THEN JsonError
    ELSE IF i + 2 = Len(t) THEN [kind |-> "list", items |-> <<t[i + 1]>>]
    ELSE IF t[i + 3] # "," THEN JsonError
    ELSE LET r == ParseElems(t, i + 4)
         IN IF r.kind = "error" THEN JsonError
            ELSE [kind |-> "list", items |-> <<t[i + 1]>> \o r.items]

\* json.loads(text): a Python value, or kind "error" for JSONDecodeError.
json_loads(text) ==
    LET t == SelectSeq(text, LAMBDA x : x # " ")
    IN IF t = <<"null">> THEN [kind |-> "none", items |-> <<>>]
       ELSE IF t = <<"{", "}">> THEN [kind |-> "dict", items |-> <<>>]
       ELSE IF Len(t) = 3 /\ IsStrAt(t, 1) THEN [kind |-> "str", items |-> <<t[2]>>]
       ELSE IF Len(t) >= 2 /\ t[1] = "[" /\ t[Len(t)] = "]"
            THEN IF Len(t) = 2 THEN [kind |-> "list", items |-> <<>>]
                 ELSE ParseElems(SubSeq(t, 2, Len(t) - 1), 1)
       ELSE JsonError

RECURSIVE DumpElems(_)
DumpElems(items) ==
    IF items = <<>> THEN <<>>
    ELSE <<"\"", items[1], "\"">> \o
         (IF Len(items) = 1 THEN <<>> ELSE <<",", " ">> \o DumpElems(Tail(items)))

Reverse(s) == [i \in 1..Len(s) |-> s[Len(s) + 1 - i]]

\* A faulty json.dumps that writes the items in reverse order.
json_dumps_reversed(items) == <<"[">> \o DumpElems(Reverse(items)) \o <<"]">>

\* json.dumps(list of str)
json_dumps(items) == <<"[">> \o DumpElems(items) \o <<"]">>

(***************************************************************************)
(* os.path                                                                 *)
(***************************************************************************)
path_join(a, b) == a \o b
dirname(p) == SubSeq(p, 1, Len(p) - 1)
basename(p) == p[Len(p)]

(***************************************************************************)
(* Bounds and input domains                                                *)
(***************************************************************************)
\* Requests are numbered by the worker that serves them.
Procs == {1, 2}

\* How many failures of the environment (a database statement, a file
\* operation) one request may meet.
MaxFaults == 2
\* How many record inserts, file writes and registrations a run performs.
MaxRecords == 2
MaxUploads == 2

\* The server clock: the months the run passes through, in order.
Calendar == << <<"2025", "01">>, <<"2025", "02">> >>

\* uuid.uuid4() as text.  A drawn name is new: it differs from every name
\* in use, and the model draws the first such name of this list.
UuidNames == <<"uuid1", "uuid2", "uuid3", "uuid4", "uuid5", "uuid6">>

(***************************************************************************)
(* State                                                                   *)
(***************************************************************************)
VARIABLES
    db,       \* the committed database: tables and AUTOINCREMENT counters
    files,    \* the files on disk: full path -> content
    dirs,     \* the directories on disk
    session,  \* the client's session: a user id, or 0 for none
    now,      \* the server clock, an index into Calendar
    req       \* per worker, the request it is serving

vars == <<db, files, dirs, session, now, req>>

EmptyFn == [k \in {} |-> None]

\* init_db (app.py:83-129): three empty tables.
EmptyDb ==
    [ log_records |-> EmptyFn, attachments |-> EmptyFn, users |-> EmptyFn,
      seq_log |-> 0, seq_att |-> 0, seq_user |-> 0 ]

NoResp == [status |-> 0, kind |-> "none", body |-> None]

\* The file a request is working on: none.
NoCur ==
    [ file |-> [filename |-> <<>>, content |-> 0, content_type |-> ""],
      unique_filename |-> <<>>, today_path |-> <<>>, destination_dir |-> <<>>,
      full_filepath_on_disk |-> <<>> ]

\* A worker that serves no request.
Idle ==
    [ pc |-> "idle", op |-> "none", arg |-> 0, data |-> EmptyFn,
      in_files |-> <<>>, todo |-> <<>>, cur |-> NoCur, dir |-> <<>>,
      tx |-> EmptyDb, in_tx |-> FALSE, log_id |-> 0,
      temp_saved_files |-> <<>>, exc |-> "none", err |-> None,
      faults |-> 0, budget |-> 0, resp |-> NoResp,
      pre |-> [db |-> EmptyDb, files |-> EmptyFn, dirs |-> {}, session |-> 0],
      executed |-> <<>>, wlock |-> FALSE, ended |-> {}, disk_faults |-> 0 ]

Init ==
    /\ db = EmptyDb
    /\ files = EmptyFn
    /\ dirs = {UPLOAD_FOLDER}
    /\ session = 0
    /\ now = 1
    /\ req = [p \in Procs |-> Idle]

(***************************************************************************)
(* Responses                                                               *)
(***************************************************************************)
Json(status, body) == [status |-> status, kind |-> "json", body |-> body]
\* An exception that leaves the handler: Flask answers 500 with no JSON body.
Unhandled == [status |-> 500, kind |-> "unhandled", body |-> None]

\* login_manager.unauthorized_handler (app.py:71-73)
unauthorized == Json(401, "Unauthorized: Please log in to access this resource")

(***************************************************************************)
(* Session gate                                                            *)
(***************************************************************************)
\* A faulty gate that takes every caller for a logged-in user.
current_user_is_authenticated_always(s, d) == TRUE

\* load_user (app.py:67-69): the session's user, if the row exists.
current_user_is_authenticated(s, d) == s # 0 /\ s \in DOMAIN d.users

\* @login_required
login_required(s, d) == current_user_is_authenticated(s, d)

(***************************************************************************)
(* Request bookkeeping                                                     *)
(***************************************************************************)
\* What a request finds when it arrives.
Snapshot == [db |-> db, files |-> files, dirs |-> dirs, session |-> session]

\* A request enters its handler.
Enter(op, arg, data, fs, pc, budget) ==
    [Idle EXCEPT !.pc = pc, !.op = op, !.arg = arg, !.data = data,
                 !.in_files = fs, !.todo = fs, !.budget = budget,
                 !.pre = Snapshot]

\* A request answered without entering a multi-step handler.
Answered(op, arg, data, fs, resp) ==
    [Idle EXCEPT !.pc = "done", !.op = op, !.arg = arg, !.data = data,
                 !.in_files = fs, !.resp = resp, !.pre = Snapshot]

\* Whether worker p may start a request: it is free, and under sequential
\* service so is every other worker.
CanStart(p, sequential) ==
    /\ req[p].pc = "idle"
    /\ sequential => \A q \in Procs : req[q].pc = "idle"

\* Whether the environment may fail the step worker p takes now.
MayFail(p) == req[p].faults < req[p].budget
FaultChoices(p) == IF MayFail(p) THEN {FALSE, TRUE} ELSE {FALSE}

\* COMMIT and ROLLBACK end the transaction of a request r and release its
\* write lock; `ended` keeps which of the two has happened to it.
Committed(r) ==
    [r EXCEPT !.in_tx = FALSE, !.wlock = FALSE, !.ended = @ \cup {"committed"}]
\* A faulty ROLLBACK that leaves the transaction open.
RolledBack_nothing(r) == r

RolledBack(r) ==
    [r EXCEPT !.in_tx = FALSE, !.wlock = FALSE, !.tx = EmptyDb,
              !.ended = @ \cup {"rolled back"}]

\* conn.close() in the finally clause and the return: a transaction still
\* open is rolled back by the close.
Close(r, resp) ==
    [(IF r.in_tx THEN RolledBack(r) ELSE r) EXCEPT
        !.pc = "done", !.resp = resp, !.tx = EmptyDb,
        !.cur = NoCur, !.dir = <<>>, !.todo = <<>>]

Finish(p, resp) == Close(req[p], resp)

(***************************************************************************)
(* SQLite in write-ahead-log mode (app.py:76-81): readers never wait, and  *)
(* one connection writes at a time.  BEGIN TRANSACTION is deferred: the     *)
(* transaction reads the database as its first statement finds it, and its *)
(* first writing statement takes the write lock, which it keeps until       *)
(* COMMIT, ROLLBACK or close.  A writing statement met by another           *)
(* connection's lock waits, and fails with "database is locked" when the    *)
(* wait outlasts the timeout; one whose transaction has read a database   *)
(* that was changed since fails at once.                                    *)
(***************************************************************************)
\* Whether no other connection holds the write lock.
WriteLockFree(p) == \A q \in Procs \ {p} : ~req[q].wlock

\* A database without locking: no writing statement ever fails.
database_never_locked(p, seen) == FALSE

\* Whether a writing statement of worker p, whose transaction has read the
\* database as `seen`, fails with sqlite3.OperationalError.
database_is_locked(p, seen) == ~WriteLockFree(p) \/ seen # db

\* A request r has met a failing file or directory operation.
DiskFault(r) == [r EXCEPT !.disk_faults = @ + 1]

\* raise: control goes to the handler's except clauses.
Raise(p, kind, err, fault) ==
    [req[p] EXCEPT !.pc = "except", !.exc = kind, !.err = err,
                   !.faults = IF fault THEN @ + 1 ELSE @]


(***************************************************************************)
(* Credentials (app.py:154-206)                                            *)
(***************************************************************************)
\* werkzeug generate_password_hash / check_password_hash: one-way, and a
\* password matches exactly the hashes made from it.
generate_password_hash(password) == <<"pbkdf2", password>>
\* A faulty check that accepts every password.
check_password_hash_any(hash, password) == TRUE

check_password_hash(hash, password) == hash = generate_password_hash(password)

\* A faulty lookup that finds no row.
get_by_username_none(d, username) == {}

\* User.get_by_username (app.py:58-65): the ids of the rows with that name.
get_by_username(d, username) ==
    {u \in DOMAIN d.users : d.users[u].username = username}

Credentials(username, password) == [username |-> username, password |-> password]

\* `not username`: the key is missing or the text is empty.
IsBlank(text) == text \in {None, ""}

\* register, up to the SELECT (app.py:154-168)
register(p, P) ==
    \E username \in P.usernames, password \in P.passwords :
        /\ CanStart(p, P.sequential)
        /\ LET data == Credentials(username, password)
           IN req' = [req EXCEPT ![p] =
                IF IsBlank(username) \/ IsBlank(password)
                THEN Answered("register", 0, data, <<>>,
                              Json(400, "Username and password are required"))
                ELSE IF get_by_username(db, username) # {}
                THEN Answered("register", 0, data, <<>>,
                              Json(409, "Username already exists"))
                ELSE Enter("register", 0, data, <<>>, "reg_insert", P.budget)]
        /\ UNCHANGED <<db, files, dirs, session, now>>

\* register, the INSERT, the commit and login_user (app.py:170-183)
reg_insert(p) ==
    /\ req[p].pc = "reg_insert"
    /\ \E fault \in FaultChoices(p) :
        IF fault \/ get_by_username(db, req[p].data.username) # {}
                 \/ database_is_locked(p, db)
        THEN \* sqlite3.Error: the failed INSERT or commit, the UNIQUE index,
             \* or the write lock of another connection
             /\ req' = [req EXCEPT ![p] =
                    [Finish(p, Json(500, "Could not register user"))
                        EXCEPT !.faults = IF fault THEN @ + 1 ELSE @]]
             /\ UNCHANGED <<db, session>>
        ELSE LET new_user_id == db.seq_user + 1
                 row == [username |-> req[p].data.username,
                         password_hash |-> generate_password_hash(req[p].data.password)]
             IN /\ db' = [db EXCEPT !.users = (new_user_id :> row) @@ @,
                                    !.seq_user = new_user_id]
                /\ session' = new_user_id
                /\ req' = [req EXCEPT ![p] =
                        Finish(p, Json(201, req[p].data.username))]
    /\ UNCHANGED <<files, dirs, now>>

\* login (app.py:185-199)
login(p, P) ==
    \E username \in P.usernames, password \in P.passwords :
        /\ CanStart(p, P.sequential)
        /\ LET data == Credentials(username, password)
               found == get_by_username(db, username)
               ok == /\ found # {}
                     /\ \E u \in found :
                            check_password_hash(db.users[u].password_hash, password)
           IN IF IsBlank(username) \/ IsBlank(password)
              THEN /\ req' = [req EXCEPT ![p] = Answered("login", 0, data, <<>>,
                                Json(400, "Username and password are required"))]
                   /\ UNCHANGED session
              ELSE IF ok
              THEN /\ session' = CHOOSE u \in found : TRUE
                   /\ req' = [req EXCEPT ![p] =
                                Answered("login", 0, data, <<>>, Json(200, username))]
              ELSE /\ req' = [req EXCEPT ![p] = Answered("login", 0, data, <<>>,
                                Json(401, "Invalid username or password"))]
                   /\ UNCHANGED session
        /\ UNCHANGED <<db, files, dirs, now>>

\* logout (app.py:201-206)
logout(p, P) ==
    /\ CanStart(p, P.sequential)
    /\ IF ~login_required(session, db)
       THEN /\ req' = [req EXCEPT ![p] = Answered("logout", 0, EmptyFn, <<>>, unauthorized)]
            /\ UNCHANGED session
       ELSE /\ session' = 0
            /\ req' = [req EXCEPT ![p] =
                    Answered("logout", 0, EmptyFn, <<>>, Json(200, "Logged out successfully"))]
    /\ UNCHANGED <<db, files, dirs, now>>

\* get_status (app.py:145-152)
get_status(p, P) ==
    /\ CanStart(p, P.sequential)
    /\ req' = [req EXCEPT ![p] = Answered("status", 0, EmptyFn, <<>>,
            Json(200, [authenticated |-> current_user_is_authenticated(session, db),
                       username |-> IF current_user_is_authenticated(session, db)
                                    THEN db.users[session].username ELSE None]))]
    /\ UNCHANGED <<db, files, dirs, session, now>>

(***************************************************************************)
(* Record fields (app.py:230-253, 443-466)                                 *)
(***************************************************************************)
required_fields ==
    <<"date_of_incident", "category", "description_of_incident", "impact_types">>

\* request.form.get(field, None)
form_get(data, field) == IF field \in DOMAIN data THEN data[field] ELSE None

\* `not data[field]`: the empty text.
IsEmptyField(data, field) ==
    IF field = "impact_types" THEN data[field] = <<>> ELSE data[field] = ""

FieldFails(data, field) == field \notin DOMAIN data \/ IsEmptyField(data, field)

\* A faulty validation that does not look at category.
validation_error_skip_category(data) ==
    LET bad == {i \in {1, 3, 4} : FieldFails(data, required_fields[i])}
    IN IF bad # {}
       THEN <<"Missing or empty required field", required_fields[CHOOSE i \in bad : \A j \in bad : i <= j]>>
       ELSE IF json_loads(data.impact_types).kind = "error"
       THEN <<"impact_types must be a valid JSON array string", "impact_types">>
       ELSE IF json_loads(data.impact_types).kind # "list"
       THEN <<"impact_types must be a valid JSON array", "impact_types">>
       ELSE None

\* The ValueError the validation raises, or None.
validation_error(data) ==
    LET bad == {i \in 1..Len(required_fields) : FieldFails(data, required_fields[i])}
    IN IF bad # {}
       THEN <<"Missing or empty required field", required_fields[CHOOSE i \in bad : \A j \in bad : i <= j]>>
       ELSE IF json_loads(data.impact_types).kind = "error"
       THEN <<"impact_types must be a valid JSON array string", "impact_types">>
       ELSE IF json_loads(data.impact_types).kind # "list"
       THEN <<"impact_types must be a valid JSON array", "impact_types">>
       ELSE None

\* The values bound to the INSERT and to the UPDATE.
bound_values(data) ==
    [ date_of_incident |-> form_get(data, "date_of_incident"),
      time_of_incident |-> form_get(data, "time_of_incident"),
      category |-> form_get(data, "category"),
      description_of_incident |-> form_get(data, "description_of_incident"),
      impact_types |-> json_dumps(json_loads(data.impact_types).items),
      impact_details |-> form_get(data, "impact_details"),
      supporting_evidence_snippet |->
          IF form_get(data, "supporting_evidence_snippet") = "null"
          THEN None ELSE form_get(data, "supporting_evidence_snippet"),
      exhibit_reference |-> form_get(data, "exhibit_reference") ]

MutableFields == DOMAIN bound_values([impact_types |-> <<"[", "]">>])

\* INSERT INTO log_records (app.py:256-268): the new row takes the next
\* AUTOINCREMENT id and the clock's created_at.
insert_log_record(d, values, clock) ==
    LET id == d.seq_log + 1
        row == [k \in MutableFields \cup {"created_at"} |->
                    IF k = "created_at" THEN clock ELSE values[k]]
    IN [d EXCEPT !.log_records = (id :> row) @@ @, !.seq_log = id]

\* A faulty UPDATE that keeps a column when the new value is absent.
update_log_record_row_partial(d, id, values) ==
    [d EXCEPT !.log_records[id] =
        [k \in DOMAIN @ |-> IF k \in MutableFields /\ values[k] # None
                            THEN values[k] ELSE @[k]]]

\* A faulty UPDATE without its WHERE clause: every row is replaced.
update_log_record_row_every(d, id, values) ==
    [d EXCEPT !.log_records =
        [r \in DOMAIN @ |->
            [k \in DOMAIN @[r] |-> IF k \in MutableFields THEN values[k] ELSE @[r][k]]]]

\* UPDATE log_records SET ... WHERE id = ? (app.py:469-487)
update_log_record_row(d, id, values) ==
    [d EXCEPT !.log_records[id] =
        [k \in DOMAIN @ |-> IF k \in MutableFields THEN values[k] ELSE @[k]]]

\* A faulty INSERT that stores the file name without its directory.
insert_attachment_bare_name(d, log_id, file, unique_filename, today_path, filesize_bytes, clock) ==
    LET id == d.seq_att + 1
        row == [ log_record_id |-> log_id,
                 filename |-> file.filename,
                 stored_filename |-> unique_filename,
                 filepath |-> <<unique_filename>>,
                 filetype |-> file.content_type,
                 filesize_bytes |-> filesize_bytes,
                 upload_date |-> clock ]
    IN [d EXCEPT !.attachments = (id :> row) @@ @, !.seq_att = id]

\* INSERT INTO attachments (app.py:296-307)
insert_attachment(d, log_id, file, unique_filename, today_path, filesize_bytes, clock) ==
    LET id == d.seq_att + 1
        row == [ log_record_id |-> log_id,
                 filename |-> file.filename,
                 stored_filename |-> unique_filename,
                 filepath |-> path_join(today_path, <<unique_filename>>),
                 filetype |-> file.content_type,
                 filesize_bytes |-> filesize_bytes,
                 upload_date |-> clock ]
    IN [d EXCEPT !.attachments = (id :> row) @@ @, !.seq_att = id]

(***************************************************************************)
(* File system                                                             *)
(***************************************************************************)
\* os.path.exists
path_exists(p) == p \in DOMAIN files \/ p \in dirs

\* os.makedirs(d): d and the directories above it.
makedirs(ds, d) == ds \cup {SubSeq(d, 1, n) : n \in 1..Len(d)}

\* file.save(path): the upload's bytes at path.
file_save(fs, path, content) == (path :> content) @@ fs

\* What a failed file.save leaves: nothing, or the file opened and cut short.
Truncated == 0

\* A faulty removal that takes every file of the directory.
os_remove_siblings(fs, path) ==
    [q \in {f \in DOMAIN fs : dirname(f) # dirname(path)} |-> fs[q]]

\* os.remove(path)
os_remove(fs, path) == [q \in DOMAIN fs \ {path} |-> fs[q]]

\* os.listdir(d): the files and directories directly in d.
listdir(d) ==
    {q \in DOMAIN files : dirname(q) = d} \cup {q \in dirs : q # <<>> /\ dirname(q) = d}

\* The uuid names in use: on disk, in a table, or held by a request.
UsedNames ==
    {basename(q)[1] : q \in DOMAIN files}
    \cup {db.attachments[a].stored_filename[1] : a \in DOMAIN db.attachments}
    \cup UNION {{req[p].tx.attachments[a].stored_filename[1] :
                    a \in DOMAIN req[p].tx.attachments} : p \in Procs}
    \cup UNION {{basename(req[p].temp_saved_files[i])[1] :
                    i \in 1..Len(req[p].temp_saved_files)} : p \in Procs}
    \cup {req[p].cur.unique_filename[1] :
            p \in {q \in Procs : req[q].cur.unique_filename # <<>>}}

\* str(uuid.uuid4())
uuid4 ==
    UuidNames[CHOOSE i \in 1..Len(UuidNames) :
                /\ UuidNames[i] \notin UsedNames
                /\ \A j \in 1..(i - 1) : UuidNames[j] \in UsedNames]

\* The run stays within its bounds when a request brings the parts fs.
HasRoom(fs) ==
    /\ db.seq_att + Len(fs) <= MaxUploads
    /\ Cardinality(DOMAIN files) + Len(fs) <= MaxUploads

(***************************************************************************)
(* create_log_record (app.py:211-327) and update_log_record               *)
(* (app.py:417-545; routes/logs.py:225-342 is the same code)               *)
(***************************************************************************)
\* The decorator, get_db_connection and BEGIN TRANSACTION (app.py:211-228).
create_log_record(p, P) ==
    \E data \in P.payloads, fs \in P.filelists, fault \in {FALSE, P.budget > 0} :
        /\ CanStart(p, P.sequential)
        /\ db.seq_log < MaxRecords
        /\ HasRoom(fs)
        /\ req' = [req EXCEPT ![p] =
            IF ~login_required(session, db)
            THEN Answered("create", 0, data, fs, unauthorized)
            ELSE IF fault
            THEN \* sqlite3.connect fails: conn stays None, nothing to undo
                 [Answered("create", 0, data, fs, Json(500, "unable to open database file"))
                    EXCEPT !.faults = 1, !.exc = "sqlite3.Error"]
            ELSE [Enter("create", 0, data, fs, "validate", P.budget)
                    EXCEPT !.tx = db, !.in_tx = TRUE]]
        /\ UNCHANGED <<db, files, dirs, session, now>>

\* The decorator, get_db_connection and BEGIN TRANSACTION (app.py:417-431).
update_log_record(p, P) ==
    \E log_id \in P.ids, data \in P.payloads, fs \in P.filelists,
       fault \in {FALSE, P.budget > 0} :
        /\ CanStart(p, P.sequential)
        /\ HasRoom(fs)
        /\ req' = [req EXCEPT ![p] =
            IF ~login_required(session, db)
            THEN Answered("update", log_id, data, fs, unauthorized)
            ELSE IF fault
            THEN [Answered("update", log_id, data, fs, Json(500, "unable to open database file"))
                    EXCEPT !.faults = 1, !.exc = "sqlite3.Error"]
            ELSE [Enter("update", log_id, data, fs, "check_exists", P.budget)
                    EXCEPT !.tx = db, !.in_tx = TRUE]]
        /\ UNCHANGED <<db, files, dirs, session, now>>

\* A faulty SELECT that finds every id.
record_exists_always(d, log_id) == TRUE

\* SELECT id FROM log_records WHERE id = ? finds a row (app.py:433-434).
record_exists(d, log_id) == log_id \in DOMAIN d.log_records

\* update: SELECT id ... ; 404 after ROLLBACK when absent (app.py:433-437).
check_exists(p) ==
    /\ req[p].pc = "check_exists"
    /\ \E fault \in FaultChoices(p) :
        req' = [req EXCEPT ![p] =
            IF fault THEN Raise(p, "sqlite3.Error", "database error", TRUE)
            ELSE IF ~record_exists(db, req[p].arg)
            THEN Close(RolledBack(req[p]), Json(404, "Log record not found"))
            ELSE [req[p] EXCEPT !.pc = "validate", !.log_id = req[p].arg,
                                !.tx = db]]
    /\ UNCHANGED <<db, files, dirs, session, now>>

\* Validation of the text fields (app.py:230-253).
validate(p) ==
    /\ req[p].pc = "validate"
    /\ req' = [req EXCEPT ![p] =
            IF validation_error(req[p].data) # None
            THEN Raise(p, "ValueError", validation_error(req[p].data), FALSE)
            ELSE [req[p] EXCEPT !.pc = "write_record"]]
    /\ UNCHANGED <<db, files, dirs, session, now>>

\* The INSERT of create (app.py:256-268) or the UPDATE of update
\* (app.py:469-487), inside the transaction.
write_record(p) ==
    /\ req[p].pc = "write_record"
    /\ \E fault \in FaultChoices(p) :
        req' = [req EXCEPT ![p] =
            IF fault THEN Raise(p, "sqlite3.Error", "database error", TRUE)
            ELSE IF req[p].op = "create"
            THEN IF database_is_locked(p, db)
                 THEN Raise(p, "sqlite3.Error", "database is locked", FALSE)
                 ELSE [req[p] EXCEPT
                        !.tx = insert_log_record(db, bound_values(req[p].data), now),
                        !.log_id = db.seq_log + 1,
                        !.wlock = TRUE,
                        !.pc = "next_file"]
            ELSE IF database_is_locked(p, req[p].tx)
                 THEN Raise(p, "sqlite3.Error", "database is locked", FALSE)
                 ELSE [req[p] EXCEPT
                        !.tx = update_log_record_row(@, req[p].log_id, bound_values(req[p].data)),
                        !.wlock = TRUE,
                        !.pc = "next_file"]]
    /\ UNCHANGED <<db, files, dirs, session, now>>

\* One turn of `for file in files`, up to the names (app.py:271-284):
\* skip an empty part, refuse a disallowed name, derive the stored name.
next_file(p) ==
    /\ req[p].pc = "next_file"
    /\ LET file == Head(req[p].todo)
           parts == rsplit_dot(secure_filename(file.filename))
           unique_filename == <<uuid4, ".">> \o LowerAll(parts[2])
           today_path == Calendar[now]
       IN IF req[p].todo = <<>>
          THEN /\ req' = [req EXCEPT ![p].pc = "commit"]
          ELSE IF file.filename = <<>>
          THEN /\ req' = [req EXCEPT ![p].todo = Tail(@)]
          ELSE IF ~allowed_file(file.filename)
          THEN /\ req' = [req EXCEPT ![p] =
                    Raise(p, "ValueError", <<"File type not allowed for", file.filename>>, FALSE)]
          ELSE IF Len(parts) < 2
          THEN \* secured_filename.rsplit('.', 1)[1]: IndexError
               /\ req' = [req EXCEPT ![p] =
                    Raise(p, "Exception", "list index out of range", FALSE)]
          ELSE /\ req' = [req EXCEPT ![p] = [@ EXCEPT
                    !.pc = "mkdir",
                    !.cur = [ file |-> file,
                              unique_filename |-> unique_filename,
                              today_path |-> today_path,
                              destination_dir |-> path_join(UPLOAD_FOLDER, today_path),
                              full_filepath_on_disk |->
                                  path_join(path_join(UPLOAD_FOLDER, today_path),
                                            <<unique_filename>>) ]]]
    /\ UNCHANGED <<db, files, dirs, session, now>>

\* if not os.path.exists(destination_dir): os.makedirs(...) (app.py:285-286)
mkdir(p) ==
    /\ req[p].pc = "mkdir"
    /\ IF path_exists(req[p].cur.destination_dir)
       THEN /\ req' = [req EXCEPT ![p].pc = "save"]
            /\ UNCHANGED dirs
       ELSE \E fault \in FaultChoices(p) :
            IF fault
            THEN /\ req' = [req EXCEPT ![p] = DiskFault(Raise(p, "Exception", "OSError", TRUE))]
                 /\ UNCHANGED dirs
            ELSE /\ dirs' = makedirs(dirs, req[p].cur.destination_dir)
                 /\ req' = [req EXCEPT ![p].pc = "save"]
    /\ UNCHANGED <<db, files, session, now>>

\* file.save(...), temp_saved_files.append(...), os.path.getsize(...)
\* (app.py:288-293).  A failing save raises OSError before the append, with
\* the file either not created or created and cut short.
save(p) ==
    /\ req[p].pc = "save"
    /\ LET path == req[p].cur.full_filepath_on_disk
           content == req[p].cur.file.content
       IN IF req[p].cur.destination_dir \notin dirs
          THEN \* FileNotFoundError: the directory is gone
               /\ req' = [req EXCEPT ![p] = Raise(p, "Exception", "OSError", FALSE)]
               /\ UNCHANGED files
          ELSE \E outcome \in {"saved"} \cup
                    (IF MayFail(p) THEN {"not created", "cut short"} ELSE {}) :
               CASE outcome = "saved" ->
                    /\ files' = file_save(files, path, content)
                    /\ req' = [req EXCEPT ![p] = [@ EXCEPT
                            !.pc = "insert_attachment",
                            !.temp_saved_files = Append(@, path)]]
                 [] outcome = "not created" ->
                    /\ req' = [req EXCEPT ![p] = DiskFault(Raise(p, "Exception", "OSError", TRUE))]
                    /\ UNCHANGED files
                 [] outcome = "cut short" ->
                    /\ files' = file_save(files, path, Truncated)
                    /\ req' = [req EXCEPT ![p] = DiskFault(Raise(p, "Exception", "OSError", TRUE))]
    /\ UNCHANGED <<db, dirs, session, now>>

\* INSERT INTO attachments, with the size measured on disk (app.py:293-307).
insert_attachment_step(p) ==
    /\ req[p].pc = "insert_attachment"
    /\ \E fault \in FaultChoices(p) :
        req' = [req EXCEPT ![p] =
            IF fault THEN Raise(p, "sqlite3.Error", "database error", TRUE)
            ELSE IF req[p].cur.full_filepath_on_disk \notin DOMAIN files
            THEN \* os.path.getsize: FileNotFoundError
                 Raise(p, "Exception", "OSError", FALSE)
            ELSE [req[p] EXCEPT
                    !.tx = insert_attachment(@, req[p].log_id, req[p].cur.file,
                                req[p].cur.unique_filename, req[p].cur.today_path,
                                files[req[p].cur.full_filepath_on_disk], now),
                    !.todo = Tail(@),
                    !.cur = NoCur,
                    !.pc = "next_file"]]
    /\ UNCHANGED <<db, files, dirs, session, now>>

\* conn.commit(): the transaction's tables become the database.
commit_db(d, tx) == tx

\* conn.commit() and the success response (app.py:309-310, 527-528).
commit(p) ==
    /\ req[p].pc = "commit"
    /\ \E fault \in FaultChoices(p) :
        IF fault
        THEN /\ req' = [req EXCEPT ![p] = Raise(p, "sqlite3.Error", "database error", TRUE)]
             /\ UNCHANGED db
        ELSE /\ db' = commit_db(db, req[p].tx)
             /\ req' = [req EXCEPT ![p] =
                    Close(Committed(req[p]),
                          Json(IF req[p].op = "create" THEN 201 ELSE 200,
                               [id |-> req[p].log_id]))]
    /\ UNCHANGED <<files, dirs, session, now>>

\* The except clauses, first statement: conn.execute('ROLLBACK;')
\* (app.py:312-313, 319-320).  A ROLLBACK that raises leaves the handler;
\* conn.close() in the finally clause then drops the transaction.
except_rollback(p) ==
    /\ req[p].pc = "except"
    /\ \E fault \in FaultChoices(p) :
        req' = [req EXCEPT ![p] =
            IF fault
            THEN [Finish(p, Unhandled) EXCEPT !.faults = @ + 1]
            ELSE [RolledBack(req[p]) EXCEPT !.pc = "cleanup"]]
    /\ UNCHANGED <<db, files, dirs, session, now>>

\* The response of the except clauses (app.py:318, 325).
error_response(exc, err) ==
    IF exc = "ValueError" THEN Json(400, err)
    ELSE IF exc = "sqlite3.Error" THEN Json(500, err)
    ELSE Json(500, "An unexpected server error occurred")

\* for fpath in temp_saved_files: if os.path.exists(fpath): os.remove(fpath)
\* (app.py:314-318), one file per step, then the error response.  An
\* os.remove that raises leaves the handler.
cleanup(p) ==
    /\ req[p].pc = "cleanup"
    /\ IF req[p].temp_saved_files = <<>>
       THEN /\ req' = [req EXCEPT ![p] = Finish(p, error_response(req[p].exc, req[p].err))]
            /\ UNCHANGED files
       ELSE LET fpath == Head(req[p].temp_saved_files)
            IN IF fpath \notin DOMAIN files
               THEN /\ req' = [req EXCEPT ![p].temp_saved_files = Tail(@)]
                    /\ UNCHANGED files
               ELSE \E fault \in FaultChoices(p) :
                    IF fault
                    THEN /\ req' = [req EXCEPT ![p] =
                                DiskFault([Finish(p, Unhandled) EXCEPT !.faults = @ + 1])]
                         /\ UNCHANGED files
                    ELSE /\ files' = os_remove(files, fpath)
                         /\ req' = [req EXCEPT ![p].temp_saved_files = Tail(@)]
    /\ UNCHANGED <<db, dirs, session, now>>

(***************************************************************************)
(* delete_log_record (app.py:547-593) and delete_attachment               *)
(* (app.py:626-675)                                                        *)
(***************************************************************************)
\* The ids of a set, ascending: the order SQLite returns rows in.
RECURSIVE Ascending(_)
Ascending(S) ==
    IF S = {} THEN <<>>
    ELSE LET m == CHOOSE x \in S : \A y \in S : x <= y
         IN <<m>> \o Ascending(S \ {m})

\* SELECT ... FROM attachments WHERE log_record_id = ?
attachments_of(d, log_id) ==
    {a \in DOMAIN d.attachments : d.attachments[a].log_record_id = log_id}

Restrict(f, S) == [k \in S |-> f[k]]

\* A faulty deletion that leaves the attachment rows.
delete_record_rows_keep_attachments(d, log_id) ==
    [d EXCEPT !.log_records = Restrict(@, DOMAIN @ \ {log_id})]

\* DELETE FROM attachments WHERE log_record_id = ?; DELETE FROM log_records
\* WHERE id = ? (app.py:559-561)
delete_record_rows(d, log_id) ==
    [d EXCEPT !.attachments = Restrict(@, DOMAIN @ \ attachments_of(d, log_id)),
              !.log_records = Restrict(@, DOMAIN @ \ {log_id})]

\* A faulty DELETE that removes no row.
delete_attachment_row_nothing(d, attachment_id) == d

\* DELETE FROM attachments WHERE id = ? (app.py:645)
delete_attachment_row(d, attachment_id) ==
    [d EXCEPT !.attachments = Restrict(@, DOMAIN @ \ {attachment_id})]

\* The decorator, get_db_connection and BEGIN TRANSACTION (app.py:547-555).
delete_log_record(p, P) ==
    \E log_id \in P.ids, fault \in {FALSE, P.budget > 0} :
        /\ CanStart(p, P.sequential)
        /\ req' = [req EXCEPT ![p] =
            IF ~login_required(session, db)
            THEN Answered("delete", log_id, EmptyFn, <<>>, unauthorized)
            ELSE IF fault
            THEN [Answered("delete", log_id, EmptyFn, <<>>, Json(500, "unable to open database file"))
                    EXCEPT !.faults = 1, !.exc = "Exception"]
            ELSE [Enter("delete", log_id, EmptyFn, <<>>, "delete_rows", P.budget)
                    EXCEPT !.tx = db, !.in_tx = TRUE]]
        /\ UNCHANGED <<db, files, dirs, session, now>>

\* The decorator, get_db_connection and BEGIN TRANSACTION (app.py:626-634).
delete_attachment(p, P) ==
    \E attachment_id \in P.attachment_ids, fault \in {FALSE, P.budget > 0} :
        /\ CanStart(p, P.sequential)
        /\ req' = [req EXCEPT ![p] =
            IF ~login_required(session, db)
            THEN Answered("delete_attachment", attachment_id, EmptyFn, <<>>, unauthorized)
            ELSE IF fault
            THEN [Answered("delete_attachment", attachment_id, EmptyFn, <<>>,
                           Json(500, "unable to open database file"))
                    EXCEPT !.faults = 1, !.exc = "Exception"]
            ELSE [Enter("delete_attachment", attachment_id, EmptyFn, <<>>, "delete_rows", P.budget)
                    EXCEPT !.tx = db, !.in_tx = TRUE]]
        /\ UNCHANGED <<db, files, dirs, session, now>>

\* The SELECT and the DELETEs inside the transaction, and the 404 after
\* ROLLBACK when nothing matched (app.py:557-565, 636-648).  The rows to
\* unlink later are kept in `todo`.  The statements are taken as one step:
\* a commit of another connection between the SELECT and the DELETE makes
\* the DELETE fail, as a write lock met by this step does.
delete_rows(p) ==
    /\ req[p].pc = "delete_rows"
    /\ \E fault \in FaultChoices(p) :
        req' = [req EXCEPT ![p] =
            IF fault THEN Raise(p, "Exception", "database error", TRUE)
            ELSE IF req[p].op = "delete"
            THEN IF database_is_locked(p, db)
                 THEN Raise(p, "Exception", "database is locked", FALSE)
                 ELSE IF req[p].arg \notin DOMAIN db.log_records
                 THEN Close(RolledBack(req[p]), Json(404, "Log record not found"))
                 ELSE [req[p] EXCEPT
                        !.todo = [i \in 1..Cardinality(attachments_of(db, req[p].arg)) |->
                                    db.attachments[
                                        Ascending(attachments_of(db, req[p].arg))[i]]],
                        !.tx = delete_record_rows(db, req[p].arg),
                        !.wlock = TRUE,
                        !.pc = "delete_commit"]
            ELSE IF req[p].arg \notin DOMAIN db.attachments
                 THEN Close(RolledBack(req[p]), Json(404, "Attachment not found"))
                 ELSE IF database_is_locked(p, db)
                 THEN Raise(p, "Exception", "database is locked", FALSE)
                 ELSE [req[p] EXCEPT
                        !.todo = <<db.attachments[req[p].arg]>>,
                        !.tx = delete_attachment_row(db, req[p].arg),
                        !.wlock = TRUE,
                        !.pc = "delete_commit"]]
    /\ UNCHANGED <<db, files, dirs, session, now>>

\* conn.commit() (app.py:567, 650)
delete_commit(p) ==
    /\ req[p].pc = "delete_commit"
    /\ \E fault \in FaultChoices(p) :
        IF fault
        THEN /\ req' = [req EXCEPT ![p] = Raise(p, "Exception", "database error", TRUE)]
             /\ UNCHANGED db
        ELSE /\ db' = commit_db(db, req[p].tx)
             /\ req' = [req EXCEPT ![p] =
                    [Committed(req[p]) EXCEPT !.pc = "unlink", !.tx = EmptyDb]]
    /\ UNCHANGED <<files, dirs, session, now>>

\* The next row's file: if os.path.exists(...): os.remove(...), an OSError
\* being printed and the loop going on (app.py:569-573, 583-584); after the
\* last row, the success response (app.py:586, 668).
unlink(p) ==
    /\ req[p].pc = "unlink"
    /\ IF req[p].todo = <<>>
       THEN /\ req' = [req EXCEPT ![p] = Finish(p, Json(200, "deleted successfully"))]
            /\ UNCHANGED files
       ELSE LET full_filepath == path_join(UPLOAD_FOLDER, Head(req[p].todo).filepath)
            IN IF full_filepath \notin DOMAIN files
               THEN /\ req' = [req EXCEPT ![p].todo = Tail(@)]
                    /\ UNCHANGED files
               ELSE \E fault \in FaultChoices(p) :
                    IF fault
                    THEN /\ req' = [req EXCEPT ![p] =
                                DiskFault([@ EXCEPT !.todo = Tail(@), !.faults = @ + 1])]
                         /\ UNCHANGED files
                    ELSE /\ files' = os_remove(files, full_filepath)
                         /\ req' = [req EXCEPT ![p] = [@ EXCEPT
                                !.pc = "rmdir_month", !.dir = dirname(full_filepath)]]
    /\ UNCHANGED <<db, dirs, session, now>>

\* A faulty os.rmdir that removes nothing.
rmdir_nothing(ds, d) == ds

\* os.rmdir(d): only an empty directory goes.
rmdir(ds, d) == ds \ {d}

\* if os.path.exists(parent_dir) and not os.listdir(parent_dir):
\* os.rmdir(parent_dir) (app.py:575-578, 657-660)
rmdir_month(p) ==
    /\ req[p].pc = "rmdir_month"
    /\ LET parent_dir == req[p].dir
       IN IF parent_dir \in dirs /\ listdir(parent_dir) = {}
          THEN \E fault \in FaultChoices(p) :
               IF fault
               THEN /\ req' = [req EXCEPT ![p] =
                            DiskFault([@ EXCEPT !.pc = "unlink", !.dir = <<>>,
                                                !.todo = Tail(@), !.faults = @ + 1])]
                    /\ UNCHANGED dirs
               ELSE /\ dirs' = rmdir(dirs, parent_dir)
                    /\ req' = [req EXCEPT ![p] = [@ EXCEPT !.pc = "rmdir_year",
                                                            !.dir = dirname(parent_dir)]]
          ELSE /\ req' = [req EXCEPT ![p] = [@ EXCEPT !.pc = "unlink", !.dir = <<>>,
                                                       !.todo = Tail(@)]]
               /\ UNCHANGED dirs
    /\ UNCHANGED <<db, files, session, now>>

\* if os.path.exists(year_dir) and year_dir != UPLOAD_FOLDER and not
\* os.listdir(year_dir): os.rmdir(year_dir) (app.py:579-582, 661-664)
rmdir_year(p) ==
    /\ req[p].pc = "rmdir_year"
    /\ LET year_dir == req[p].dir
       IN IF year_dir \in dirs /\ year_dir # UPLOAD_FOLDER /\ listdir(year_dir) = {}
          THEN \E fault \in FaultChoices(p) :
               /\ dirs' = IF fault THEN dirs ELSE rmdir(dirs, year_dir)
               /\ req' = [req EXCEPT ![p] =
                        [(IF fault THEN DiskFault(@) ELSE @) EXCEPT
                            !.pc = "unlink", !.dir = <<>>, !.todo = Tail(@),
                            !.faults = IF fault THEN @ + 1 ELSE @]]
          ELSE /\ req' = [req EXCEPT ![p] = [@ EXCEPT !.pc = "unlink", !.dir = <<>>,
                                                       !.todo = Tail(@)]]
               /\ UNCHANGED dirs
    /\ UNCHANGED <<db, files, session, now>>

(***************************************************************************)
(* Reading handlers                                                        *)
(***************************************************************************)
\* A faulty reader that returns the stored text undecoded.
impact_types_as_stored(text) == text

\* json.loads of the stored impact_types, [] when the column is empty
\* (app.py:404-408).
impact_types_list(text) == IF text # <<>> THEN json_loads(text).items ELSE <<>>

\* dict(record) of SELECT * FROM log_records WHERE id = ?, impact_types
\* expanded (app.py:398-410).
record_dict(d, id) ==
    [k \in DOMAIN d.log_records[id] \cup {"id"} |->
        IF k = "id" THEN id
        ELSE IF k = "impact_types" THEN impact_types_list(d.log_records[id][k])
        ELSE d.log_records[id][k]]

\* get_log_record_by_id (app.py:391-415)
get_log_record_by_id_response(d, id) ==
    IF id \notin DOMAIN d.log_records
    THEN Json(404, "Log record not found")
    ELSE Json(200, record_dict(d, id))

get_log_record_by_id(p, P) ==
    \E log_id \in P.ids :
        /\ CanStart(p, P.sequential)
        /\ req' = [req EXCEPT ![p] = Answered("get", log_id, EmptyFn, <<>>,
                IF ~login_required(session, db) THEN unauthorized
                ELSE get_log_record_by_id_response(db, log_id))]
        /\ UNCHANGED <<db, files, dirs, session, now>>

\* dict(att) of SELECT * FROM attachments WHERE log_record_id = ?
\* (app.py:684-687)
attachments_list(d, log_record_id) ==
    LET ids == Ascending(attachments_of(d, log_record_id))
    IN [i \in 1..Len(ids) |->
            [k \in DOMAIN d.attachments[ids[i]] \cup {"id"} |->
                IF k = "id" THEN ids[i] ELSE d.attachments[ids[i]][k]]]

\* get_log_record_attachments (app.py:678-692)
get_log_record_attachments(p, P) ==
    \E log_record_id \in P.ids :
        /\ CanStart(p, P.sequential)
        /\ req' = [req EXCEPT ![p] = Answered("attachments", log_record_id, EmptyFn, <<>>,
                IF ~login_required(session, db) THEN unauthorized
                ELSE Json(200, attachments_list(db, log_record_id)))]
        /\ UNCHANGED <<db, files, dirs, session, now>>

\* get_allowed_extensions of app.py (app.py:694-697; routes/logs.py:491-495
\* carries the same decorator)
get_allowed_extensions(p, P) ==
    /\ CanStart(p, P.sequential)
    /\ req' = [req EXCEPT ![p] = Answered("allowed_extensions", 0, EmptyFn, <<>>,
            IF ~login_required(session, db) THEN unauthorized
            ELSE Json(200, ALLOWED_EXTENSIONS))]
    /\ UNCHANGED <<db, files, dirs, session, now>>

\* get_allowed_extensions of the auth blueprint (auth.py:73-77)
auth_get_allowed_extensions(p, P) ==
    /\ CanStart(p, P.sequential)
    /\ req' = [req EXCEPT ![p] = Answered("auth_allowed_extensions", 0, EmptyFn, <<>>,
            Json(200, ALLOWED_EXTENSIONS))]
    /\ UNCHANGED <<db, files, dirs, session, now>>

\* SELECT filename, stored_filename, filepath FROM attachments WHERE
\* stored_filename = ? (app.py:601-604): the matching rows.
attachments_named(d, stored_filename) ==
    {a \in DOMAIN d.attachments : d.attachments[a].stored_filename = stored_filename}

\* download_attachment up to the SELECT (app.py:596-606, 618-619); it
\* carries no decorator.
download_attachment(p, P) ==
    \E filename_to_find \in P.download_names, fault \in {FALSE, P.budget > 0} :
        /\ CanStart(p, P.sequential)
        /\ LET found == attachments_named(db, filename_to_find)
               data == [filename_to_find |-> filename_to_find]
           IN req' = [req EXCEPT ![p] =
                IF fault
                THEN [Answered("download", 0, data, <<>>, Json(500, "Could not serve file"))
                        EXCEPT !.faults = 1, !.exc = "Exception"]
                ELSE IF found = {}
                THEN Answered("download", 0, data, <<>>,
                              Json(404, "File not found or not permitted"))
                ELSE [Enter("download", CHOOSE a \in found : \A b \in found : a <= b,
                            data, <<>>, "send", P.budget)
                        EXCEPT !.todo = <<db.attachments[CHOOSE a \in found :
                                                            \A b \in found : a <= b]>>]]
        /\ UNCHANGED <<db, files, dirs, session, now>>

\* A faulty choice: the stored name is offered.
download_name_stored(attachment_info) == attachment_info.stored_filename

\* The name the browser is offered: download_name=original_filename.
download_name(attachment_info) == attachment_info.filename

\* send_from_directory(os.path.join(UPLOAD_FOLDER, dirname(filepath)),
\* stored_filename, as_attachment=True, download_name=...) (app.py:607-617);
\* a missing file raises NotFound, which `except Exception` turns into 500
\* (app.py:620-622).
send(p) ==
    /\ req[p].pc = "send"
    /\ LET attachment_info == Head(req[p].todo)
           full_directory_to_serve_from ==
               path_join(UPLOAD_FOLDER, dirname(attachment_info.filepath))
           path == path_join(full_directory_to_serve_from,
                             <<attachment_info.stored_filename>>)
       IN \E fault \in FaultChoices(p) :
          req' = [req EXCEPT ![p] =
            IF fault \/ path \notin DOMAIN files
            THEN [Finish(p, Json(500, "Could not serve file"))
                    EXCEPT !.faults = IF fault THEN @ + 1 ELSE @, !.exc = "Exception"]
            ELSE Finish(p, [status |-> 200, kind |-> "file",
                            body |-> [content |-> files[path],
                                      download_name |-> download_name(attachment_info)]])]
    /\ UNCHANGED <<db, files, dirs, session, now>>

(***************************************************************************)
(* get_log_records (app.py:330-389)                                        *)
(***************************************************************************)
\* The texts of the model in SQLite's (byte) order; a text's rank is its
\* place in this list.
TextOrder ==
    <<"", "09:30", "2025-01-10", "2025-02-01", "A", "B", "Ex-1", "bogus",
      "desc", "details", "null", "quote">>

TextRank(t) == CHOOSE i \in 1..Len(TextOrder) : TextOrder[i] = t

\* str.upper() on the sort_order values.
Upper(t) ==
    CASE t = "asc" -> "ASC"
      [] t = "desc" -> "DESC"
      [] OTHER -> t

\* A faulty allow-list that lets one more column through.
valid_sort_columns_wider ==
    {"date_of_incident", "category", "created_at", "description_of_incident"}

valid_sort_columns == {"date_of_incident", "category", "created_at"}

\* request.args.get(name, default)
args_get(args, name, default) == IF name \in DOMAIN args THEN args[name] ELSE default

\* The WHERE clause built from the filters (app.py:357-367).
matches(row, args) ==
    LET category_filter == args_get(args, "category", None)
        start_date == args_get(args, "start_date", None)
        end_date == args_get(args, "end_date", None)
    IN /\ (category_filter \notin {None, ""}) => row.category = category_filter
       /\ (start_date \notin {None, ""}) =>
                TextRank(row.date_of_incident) >= TextRank(start_date)
       /\ (end_date \notin {None, ""}) =>
                TextRank(row.date_of_incident) <= TextRank(end_date)

sort_key(row, sort_by) ==
    IF sort_by = "created_at" THEN row.created_at ELSE TextRank(row[sort_by])

\* A faulty ORDER BY whose second key is created_at ascending.
in_order_ties_ascending(a, b, sort_by, sort_order) ==
    LET ka == sort_key(a, sort_by)
        kb == sort_key(b, sort_by)
    IN \/ IF sort_order = "ASC" THEN ka < kb ELSE ka > kb
       \/ ka = kb /\ a.created_at <= b.created_at

\* ORDER BY lr.<sort_by> <sort_order>, lr.created_at DESC: whether row a may
\* stand directly before row b.
in_order(a, b, sort_by, sort_order) ==
    LET ka == sort_key(a, sort_by)
        kb == sort_key(b, sort_by)
    IN \/ IF sort_order = "ASC" THEN ka < kb ELSE ka > kb
       \/ ka = kb /\ a.created_at >= b.created_at

\* COUNT(a.id) of the LEFT JOIN, per record (app.py:350-352).
attachment_count(d, id) == Cardinality(attachments_of(d, id))

\* The orders the query may return the matching ids in.
query_orders(d, args) ==
    LET sort_by == args_get(args, "sort_by", "date_of_incident")
        sort_order == Upper(args_get(args, "sort_order", "desc"))
        ids == {id \in DOMAIN d.log_records : matches(d.log_records[id], args)}
    IN {o \in [1..Cardinality(ids) -> ids] :
            /\ \A i, j \in DOMAIN o : i # j => o[i] # o[j]
            /\ \A i \in 1..(Len(o) - 1) :
                    in_order(d.log_records[o[i]], d.log_records[o[i + 1]],
                             sort_by, sort_order)}

\* The ORDER BY clause that is put into the query text (app.py:369).
order_by(sort_by, sort_order) ==
    <<"ORDER BY", sort_by, sort_order, "created_at", "DESC">>

\* One entry of records_list (app.py:375-382).
list_entry(d, id) ==
    [k \in DOMAIN record_dict(d, id) \cup {"attachment_count"} |->
        IF k = "attachment_count" THEN attachment_count(d, id)
        ELSE record_dict(d, id)[k]]

get_log_records(p, P) ==
    \E args \in P.queries :
        /\ CanStart(p, P.sequential)
        /\ LET sort_by == args_get(args, "sort_by", "date_of_incident")
               sort_order == Upper(args_get(args, "sort_order", "desc"))
           IN IF ~login_required(session, db)
              THEN req' = [req EXCEPT ![p] = Answered("list", 0, args, <<>>, unauthorized)]
              ELSE IF sort_by \notin valid_sort_columns
              THEN req' = [req EXCEPT ![p] = Answered("list", 0, args, <<>>,
                                Json(400, <<"Invalid sort_by column", sort_by>>))]
              ELSE IF sort_order \notin {"ASC", "DESC"}
              THEN req' = [req EXCEPT ![p] = Answered("list", 0, args, <<>>,
                                Json(400, <<"Invalid sort_order", sort_order>>))]
              ELSE \E o \in query_orders(db, args) :
                    req' = [req EXCEPT ![p] =
                        [Answered("list", 0, args, <<>>,
                                  Json(200, [i \in DOMAIN o |-> list_entry(db, o[i])]))
                            EXCEPT !.executed = <<order_by(sort_by, sort_order)>>]]
        /\ UNCHANGED <<db, files, dirs, session, now>>

(***************************************************************************)
(* The environment                                                         *)
(***************************************************************************)
\* The client takes the response; the worker is free again.
Return(p) ==
    /\ req[p].pc = "done"
    /\ req' = [req EXCEPT ![p] = Idle]
    /\ UNCHANGED <<db, files, dirs, session, now>>

\* The server clock passes into the next month.
Tick ==
    /\ now < Len(Calendar)
    /\ now' = now + 1
    /\ UNCHANGED <<db, files, dirs, session, req>>

(***************************************************************************)
(* Inputs                                                                  *)
(***************************************************************************)
\* The form fields of the scenario of the specification's section 8.
BaseData ==
    [ date_of_incident |-> "2025-01-10", category |-> "A",
      description_of_incident |-> "desc",
      impact_types |-> <<"[", "\"", "financial", "\"", "]">> ]

With(d, f, v) == [k \in DOMAIN d \cup {f} |-> IF k = f THEN v ELSE d[k]]
Without(d, f) == [k \in DOMAIN d \ {f} |-> d[k]]

\* Every optional field given.
FullData ==
    With(With(With(With(BaseData, "time_of_incident", "09:30"),
                   "impact_details", "details"),
              "supporting_evidence_snippet", "quote"),
         "exhibit_reference", "Ex-1")

\* Valid payloads: the scenario's, one with every field and two impact
\* types, one whose snippet is the text "null", one with an empty list.
ValidPayloads ==
    { BaseData,
      With(FullData, "impact_types",
           <<"[", "\"", "emotional", "\"", ",", "\"", "financial", "\"", "]">>),
      With(BaseData, "supporting_evidence_snippet", "null"),
      With(BaseData, "impact_types", <<"[", "]">>) }

\* A payload the validation refuses.
NoCategory == With(BaseData, "category", "")

\* Payloads with a required field missing or empty, or with an impact_types
\* that is not the text of a JSON list.
InvalidPayloads ==
    { Without(BaseData, "date_of_incident"),
      NoCategory,
      With(BaseData, "description_of_incident", ""),
      Without(BaseData, "impact_types"),
      With(BaseData, "impact_types", <<>>),
      With(BaseData, "impact_types", <<"\"", "financial", "\"">>),
      With(BaseData, "impact_types", <<"null">>),
      With(BaseData, "impact_types", <<"{", "}">>),
      With(BaseData, "impact_types", <<"[", "\"", "financial", "\"">>) }

\* A payload whose impact_types is the empty list.
EmptyList == With(BaseData, "impact_types", <<"[", "]">>)

\* The parts a multipart request can carry in `files`.
FilePart(name, content, type) ==
    [filename |-> name, content |-> content, content_type |-> type]

ReportPdf == FilePart(<<"report", ".", "pdf">>, 3, "application/pdf")
NotesUpper == FilePart(<<"notes", ".", "Txt">>, 5, "text/plain")
VirusExe == FilePart(<<"virus", ".", "exe">>, 3, "application/octet-stream")
NoExt == FilePart(<<"README">>, 5, "text/plain")
DotPdf == FilePart(<<".", "pdf">>, 3, "application/pdf")
EmptyPart == FilePart(<<>>, 0, "application/octet-stream")

\* How many parts one request carries.
MaxFiles == 2

SeqsUpTo(S, n) == UNION {[1..k -> S] : k \in 0..n}

\* Names a download can ask for: stored names and an original name.
DownloadNames ==
    { <<UuidNames[1], ".", "pdf">>, <<UuidNames[2], ".", "pdf">>,
      <<UuidNames[1], ".", "txt">>, <<"report", ".", "pdf">> }

ListQueries ==
    { EmptyFn,
      [category |-> "A", sort_by |-> "date_of_incident", sort_order |-> "asc"],
      [sort_by |-> "created_at"],
      [sort_by |-> "bogus"],
      [sort_by |-> "description_of_incident"],
      [sort_order |-> "bogus"] }

(***************************************************************************)
(* Specifications                                                          *)
(***************************************************************************)
\* Steps of the handlers that take more than one step.
WriteSteps(p) ==
    \/ check_exists(p)
    \/ validate(p)
    \/ write_record(p)
    \/ next_file(p)
    \/ mkdir(p)
    \/ save(p)
    \/ insert_attachment_step(p)
    \/ commit(p)
    \/ except_rollback(p)
    \/ cleanup(p)

DeleteSteps(p) ==
    \/ delete_rows(p)
    \/ delete_commit(p)
    \/ unlink(p)
    \/ rmdir_month(p)
    \/ rmdir_year(p)

\* Spec: one request at a time; uploads of every kind, and an environment
\* that may fail any database statement and any file operation.
FaultProfile ==
    [ usernames |-> {"alice"}, passwords |-> {"pw1"},
      payloads |-> {BaseData, NoCategory},
      filelists |-> SeqsUpTo({ReportPdf, VirusExe}, MaxFiles),
      ids |-> 1..MaxRecords,
      attachment_ids |-> 1..MaxUploads,
      download_names |-> DownloadNames,
      queries |-> ListQueries,
      budget |-> MaxFaults, sequential |-> TRUE ]

Next ==
    \E p \in {1} :
        \/ register(p, FaultProfile)
        \/ reg_insert(p)
        \/ create_log_record(p, FaultProfile)
        \/ update_log_record(p, FaultProfile)
        \/ WriteSteps(p)
        \/ delete_log_record(p, FaultProfile)
        \/ delete_attachment(p, FaultProfile)
        \/ DeleteSteps(p)
        \/ download_attachment(p, FaultProfile)
        \/ send(p)
        \/ Return(p)

Spec == Init /\ [][Next]_vars

\* SpecUploads: one request at a time, nothing fails; the parts of a
\* request carry file names of every shape.
UploadProfile ==
    [ usernames |-> {"alice"}, passwords |-> {"pw1"},
      payloads |-> {BaseData},
      filelists |-> SeqsUpTo({ReportPdf, NotesUpper, VirusExe, NoExt, DotPdf, EmptyPart},
                             MaxFiles),
      ids |-> 1..MaxRecords,
      attachment_ids |-> 1..MaxUploads,
      download_names |-> DownloadNames,
      queries |-> ListQueries,
      budget |-> 0, sequential |-> TRUE ]

NextUploads ==
    \E p \in {1} :
        \/ register(p, UploadProfile)
        \/ reg_insert(p)
        \/ create_log_record(p, UploadProfile)
        \/ update_log_record(p, UploadProfile)
        \/ WriteSteps(p)
        \/ Return(p)

SpecUploads == Init /\ [][NextUploads]_vars

\* SpecGate: every endpoint, with and without a session, one request at a
\* time, nothing fails.
GateProfile ==
    [ usernames |-> {"alice"}, passwords |-> {"pw1", "guess"},
      payloads |-> {BaseData},
      filelists |-> {<<>>, <<ReportPdf>>, <<VirusExe>>},
      ids |-> 1..MaxRecords,
      attachment_ids |-> 1..MaxUploads,
      download_names |-> DownloadNames,
      queries |-> {EmptyFn, [sort_by |-> "bogus"], [sort_order |-> "bogus"]},
      budget |-> 0, sequential |-> TRUE ]

NextGate ==
    \/ \E p \in {1} :
        \/ register(p, GateProfile)
        \/ reg_insert(p)
        \/ login(p, GateProfile)
        \/ logout(p, GateProfile)
        \/ get_status(p, GateProfile)
        \/ create_log_record(p, GateProfile)
        \/ update_log_record(p, GateProfile)
        \/ WriteSteps(p)
        \/ delete_log_record(p, GateProfile)
        \/ delete_attachment(p, GateProfile)
        \/ DeleteSteps(p)
        \/ get_log_records(p, GateProfile)
        \/ get_log_record_by_id(p, GateProfile)
        \/ get_log_record_attachments(p, GateProfile)
        \/ get_allowed_extensions(p, GateProfile)
        \/ auth_get_allowed_extensions(p, GateProfile)
        \/ download_attachment(p, GateProfile)
        \/ send(p)
        \/ Return(p)
    \/ Tick

SpecGate == Init /\ [][NextGate]_vars

\* SpecRecords: records of every valid content are created, replaced and
\* read back, one request at a time, nothing fails.
RecordProfile ==
    [ usernames |-> {"alice"}, passwords |-> {"pw1"},
      payloads |-> ValidPayloads \cup {NoCategory},
      filelists |-> {<<>>, <<ReportPdf>>},
      ids |-> 1..MaxRecords,
      attachment_ids |-> 1..MaxUploads,
      download_names |-> DownloadNames,
      queries |-> ListQueries,
      budget |-> 0, sequential |-> TRUE ]

NextRecords ==
    \E p \in {1} :
        \/ register(p, RecordProfile)
        \/ reg_insert(p)
        \/ create_log_record(p, RecordProfile)
        \/ update_log_record(p, RecordProfile)
        \/ WriteSteps(p)
        \/ get_log_records(p, RecordProfile)
        \/ get_log_record_by_id(p, RecordProfile)
        \/ Return(p)

SpecRecords == Init /\ [][NextRecords]_vars

\* SpecList: records of two categories and two dates, created at different
\* times, are listed under every combination of filters and sort keys.
ListPayloads ==
    { BaseData,
      With(BaseData, "date_of_incident", "2025-02-01"),
      With(With(BaseData, "date_of_incident", "2025-02-01"), "category", "B") }

\* A query string: the parameters that are given.
QueryOf(full) == [k \in {f \in DOMAIN full : full[f] # None} |-> full[k]]

FilterQueries ==
    { QueryOf(q) : q \in [ category : {None, "", "A"},
                           start_date : {None, "2025-02-01"},
                           end_date : {None, "2025-01-10"},
                           sort_by : {None, "category", "created_at"},
                           sort_order : {None, "asc"} ] }

ListProfile ==
    [ usernames |-> {"alice"}, passwords |-> {"pw1"},
      payloads |-> ListPayloads,
      filelists |-> {<<>>},
      ids |-> 1..MaxRecords,
      attachment_ids |-> 1..MaxUploads,
      download_names |-> DownloadNames,
      queries |-> FilterQueries \cup ListQueries,
      budget |-> 0, sequential |-> TRUE ]

NextList ==
    \/ \E p \in {1} :
        \/ register(p, ListProfile)
        \/ reg_insert(p)
        \/ create_log_record(p, ListProfile)
        \/ validate(p)
        \/ write_record(p)
        \/ next_file(p)
        \/ commit(p)
        \/ get_log_records(p, ListProfile)
        \/ Return(p)
    \/ Tick

SpecList == Init /\ [][NextList]_vars

\* SpecAuth: register, login and logout with present, empty and missing
\* credentials, one request at a time, nothing fails.
AuthProfile ==
    [ usernames |-> {None, "", "alice", "bob"}, passwords |-> {None, "", "pw1", "pw2"},
      payloads |-> {BaseData},
      filelists |-> {<<>>},
      ids |-> 1..MaxRecords,
      attachment_ids |-> 1..MaxUploads,
      download_names |-> DownloadNames,
      queries |-> {EmptyFn},
      budget |-> 0, sequential |-> TRUE ]

NextAuth ==
    \E p \in {1} :
        \/ register(p, AuthProfile)
        \/ reg_insert(p)
        \/ login(p, AuthProfile)
        \/ logout(p, AuthProfile)
        \/ get_status(p, AuthProfile)
        \/ Return(p)

SpecAuth == Init /\ [][NextAuth]_vars

\* SpecValidation: create and update with valid and invalid fields and with
\* allowed and disallowed files, one request at a time, nothing fails.
ValidationProfile ==
    [ usernames |-> {"alice"}, passwords |-> {"pw1"},
      payloads |-> {BaseData, EmptyList} \cup InvalidPayloads,
      filelists |-> SeqsUpTo({ReportPdf, VirusExe}, MaxFiles),
      ids |-> 1..MaxRecords,
      attachment_ids |-> 1..MaxUploads,
      download_names |-> DownloadNames,
      queries |-> {EmptyFn},
      budget |-> 0, sequential |-> TRUE ]

NextValidation ==
    \E p \in {1} :
        \/ register(p, ValidationProfile)
        \/ reg_insert(p)
        \/ create_log_record(p, ValidationProfile)
        \/ update_log_record(p, ValidationProfile)
        \/ WriteSteps(p)
        \/ Return(p)

SpecValidation == Init /\ [][NextValidation]_vars

\* SpecTerminal: create and update, one request at a time, in an
\* environment that may fail any database statement and any file operation;
\* a handler that has started keeps running.
TerminalProfile ==
    [ usernames |-> {"alice"}, passwords |-> {"pw1"},
      payloads |-> {BaseData, NoCategory},
      filelists |-> {<<>>, <<ReportPdf>>, <<VirusExe>>, <<ReportPdf, VirusExe>>},
      ids |-> 1..MaxRecords,
      attachment_ids |-> 1..MaxUploads,
      download_names |-> DownloadNames,
      queries |-> {EmptyFn},
      budget |-> MaxFaults, sequential |-> TRUE ]

NextTerminal ==
    \E p \in {1} :
        \/ register(p, TerminalProfile)
        \/ reg_insert(p)
        \/ create_log_record(p, TerminalProfile)
        \/ update_log_record(p, TerminalProfile)
        \/ WriteSteps(p)
        \/ Return(p)

\* The steps of WriteSteps other than next_file.
StraightSteps(p) ==
    \/ check_exists(p)
    \/ validate(p)
    \/ write_record(p)
    \/ mkdir(p)
    \/ save(p)
    \/ insert_attachment_step(p)
    \/ commit(p)
    \/ except_rollback(p)
    \/ cleanup(p)

\* The thread of a request keeps running: weak fairness of every step of
\* the handler.  That of next_file is written out, the step being enabled
\* exactly when the request stands at the head of the file loop.
KeepsRunning(p) ==
    /\ WF_vars(StraightSteps(p))
    /\ \/ []<>(req[p].pc # "next_file")
       \/ []<><<next_file(p)>>_vars

SpecTerminal == Init /\ [][NextTerminal]_vars /\ KeepsRunning(1)

\* SpecRegisterRace: two workers serve register and login requests at the
\* same time, their steps interleaved in every order; nothing fails.
RegisterRaceProfile ==
    [ usernames |-> {"alice", "bob"}, passwords |-> {"pw1", "pw2"},
      payloads |-> {BaseData},
      filelists |-> {<<>>},
      ids |-> 1..MaxRecords,
      attachment_ids |-> 1..MaxUploads,
      download_names |-> DownloadNames,
      queries |-> {EmptyFn},
      budget |-> 0, sequential |-> FALSE ]

NextRegisterRace ==
    \E p \in Procs :
        \/ register(p, RegisterRaceProfile)
        \/ reg_insert(p)
        \/ login(p, RegisterRaceProfile)
        \/ Return(p)

SpecRegisterRace == Init /\ [][NextRegisterRace]_vars

\* SpecRace: worker 1 serves creates, updates and downloads while worker 2
\* serves deletes of records and of attachments, the steps of the two
\* interleaved in every order; no statement and no file operation fails
\* other than by what the other request has done.
RaceProfile ==
    [ usernames |-> {"alice"}, passwords |-> {"pw1"},
      payloads |-> {BaseData},
      filelists |-> {<<>>, <<ReportPdf>>},
      ids |-> {1},
      attachment_ids |-> {1},
      download_names |-> {<<UuidNames[1], ".", "pdf">>},
      queries |-> {EmptyFn},
      budget |-> 0, sequential |-> FALSE ]

NextRace ==
    \/ \E p \in {1} :
        \/ register(p, RaceProfile)
        \/ reg_insert(p)
        \/ create_log_record(p, RaceProfile)
        \/ update_log_record(p, RaceProfile)
        \/ WriteSteps(p)
        \/ download_attachment(p, RaceProfile)
        \/ send(p)
        \/ Return(p)
    \/ \E p \in {2} :
        \/ delete_log_record(p, RaceProfile)
        \/ delete_attachment(p, RaceProfile)
        \/ DeleteSteps(p)
        \/ except_rollback(p)
        \/ cleanup(p)
        \/ Return(p)

SpecRace == Init /\ [][NextRace]_vars

(***************************************************************************)
(* Properties                                                              *)
(***************************************************************************)
Done(p, ops) == req[p].pc = "done" /\ req[p].op \in ops

\* What a finished request added to the disk and to the attachments table.
NewFiles(p) == DOMAIN files \ DOMAIN req[p].pre.files
NewRows(p) == DOMAIN db.attachments \ DOMAIN req[p].pre.db.attachments

\* The parts of a request that name a file.
NamedParts(fs) == {i \in 1..Len(fs) : fs[i].filename # <<>>}

FullPath(filepath) == path_join(UPLOAD_FOLDER, filepath)

\* The request's record change, all its rows and all its files are there.
AllTogether(p) ==
    /\ req[p].resp.status \in {200, 201}
    /\ req[p].log_id \in DOMAIN db.log_records
    /\ \A k \in MutableFields :
            db.log_records[req[p].log_id][k] = bound_values(req[p].data)[k]
    /\ Cardinality(NewRows(p)) = Cardinality(NamedParts(req[p].in_files))
    /\ \A a \in NewRows(p) : FullPath(db.attachments[a].filepath) \in DOMAIN files
    /\ \A f \in NewFiles(p) : \E a \in NewRows(p) : FullPath(db.attachments[a].filepath) = f

\* Nothing of the request is there.
NoneOfIt(p) ==
    /\ db = req[p].pre.db
    /\ files = req[p].pre.files

\* C1: when a create or update request ends, either its record change, all
\* its new Attachment rows and all their files exist together, or no record
\* change, no row and no file of the request remains, whatever failed.
C1_AtomicAtEveryFailure ==
    \A p \in Procs :
        Done(p, {"create", "update"}) => AllTogether(p) \/ NoneOfIt(p)

\* C2: in create and update, when the commit step is reached and when the
\* commit has been done, every Attachment row the request inserted has its
\* file on disk at <upload-root>/<filepath of the row>.
C2_RowsHaveFilesAtCommit ==
    \A p \in Procs :
        /\ (req[p].pc = "commit") =>
                \A a \in DOMAIN req[p].tx.attachments \ DOMAIN req[p].pre.db.attachments :
                    FullPath(req[p].tx.attachments[a].filepath) \in DOMAIN files
        /\ (Done(p, {"create", "update"}) /\ req[p].resp.status \in {200, 201}) =>
                \A a \in NewRows(p) : FullPath(db.attachments[a].filepath) \in DOMAIN files

\* A request with two inserted rows stands at its commit step.
C2_Witness ==
    \E p \in Procs :
        /\ req[p].pc = "commit"
        /\ Cardinality(DOMAIN req[p].tx.attachments \ DOMAIN req[p].pre.db.attachments) = 2

\* C3: a create or update request of a logged-in user (update: of an
\* existing record) that carries a file whose name has no '.' or whose
\* extension is outside the allow-list ends with 400, and no file and no
\* Attachment row of the request is left.
C3_DisallowedFileIsBadRequest ==
    \A p \in Procs :
        ( /\ Done(p, {"create", "update"})
          /\ req[p].pre.session # 0
          /\ req[p].op = "update" => req[p].arg \in DOMAIN req[p].pre.db.log_records
          /\ \E i \in NamedParts(req[p].in_files) :
                \/ Positions(req[p].in_files[i].filename, ".") = {}
                \/ ~InWords(LowerAll(rsplit_dot(req[p].in_files[i].filename)[2]),
                            ALLOWED_EXTENSIONS) )
        => /\ req[p].resp.status = 400
           /\ NewFiles(p) = {}
           /\ NewRows(p) = {}

\* The operations behind the session gate that the gate's rule names.
GatedOps ==
    {"create", "list", "get", "update", "delete", "delete_attachment",
     "attachments", "logout"}

\* C4: a gated operation invoked while no session is active answers 401
\* Unauthorized and changes no table, no file, no directory and no session.
C4_SessionGate ==
    \A p \in Procs :
        (Done(p, GatedOps) /\ req[p].pre.session = 0)
        => /\ req[p].resp.status = 401
           /\ req[p].resp = unauthorized
           /\ db = req[p].pre.db
           /\ files = req[p].pre.files
           /\ dirs = req[p].pre.dirs
           /\ session = 0

\* Without a session, the deletion of an existing record that has an
\* attachment was refused.
C4_Witness ==
    \E p \in Procs :
        /\ Done(p, {"delete"})
        /\ req[p].pre.session = 0
        /\ req[p].arg \in DOMAIN db.log_records
        /\ attachments_of(db, req[p].arg) # {}
        /\ req[p].resp.status = 401

\* C5: GET /config/allowed_extensions answers 200 with the allow-list in
\* every session state.
C5_AllowedExtensionsOpen ==
    \A p \in Procs :
        Done(p, {"allowed_extensions", "auth_allowed_extensions"})
        => req[p].resp = Json(200, ALLOWED_EXTENSIONS)

\* C6: a download by stored name, in any session state, answers 404 when no
\* Attachment row has that stored name, and otherwise returns the file
\* stored for the row under the row's original filename.
C6_DownloadByStoredName ==
    \A p \in Procs :
        Done(p, {"download"})
        => LET rows == {a \in DOMAIN req[p].pre.db.attachments :
                            req[p].pre.db.attachments[a].stored_filename
                                = req[p].data.filename_to_find}
           IN IF rows = {}
              THEN req[p].resp.status = 404
              ELSE \E a \in rows :
                    LET row == req[p].pre.db.attachments[a]
                    IN /\ req[p].resp.status = 200
                       /\ req[p].resp.kind = "file"
                       /\ req[p].resp.body.download_name = row.filename
                       /\ FullPath(row.filepath) \in DOMAIN req[p].pre.files
                       /\ req[p].resp.body.content = req[p].pre.files[FullPath(row.filepath)]
                       /\ req[p].resp.body.content = row.filesize_bytes

\* A file was served to a client that has no session.
C6_Witness ==
    \E p \in Procs :
        /\ Done(p, {"download"})
        /\ req[p].pre.session = 0
        /\ req[p].resp.kind = "file"
        /\ req[p].resp.body.download_name = <<"report", ".", "pdf">>

\* C7: deleting an existing record (logged in) succeeds; afterwards get of
\* the id answers 404, the record has no attachments, none of its files is
\* on disk, and every other record, attachment row and file is as before.
C7_DeleteRecordCascade ==
    \A p \in Procs :
        ( /\ Done(p, {"delete"})
          /\ req[p].pre.session # 0
          /\ req[p].arg \in DOMAIN req[p].pre.db.log_records )
        => LET before == req[p].pre.db
               gone == {a \in DOMAIN before.attachments :
                            before.attachments[a].log_record_id = req[p].arg}
               paths == {FullPath(before.attachments[a].filepath) : a \in gone}
           IN /\ req[p].resp.status = 200
              /\ get_log_record_by_id_response(db, req[p].arg).status = 404
              /\ attachments_list(db, req[p].arg) = <<>>
              /\ paths \cap DOMAIN files = {}
              /\ db.log_records
                    = Restrict(before.log_records, DOMAIN before.log_records \ {req[p].arg})
              /\ db.attachments = Restrict(before.attachments, DOMAIN before.attachments \ gone)
              /\ files = Restrict(req[p].pre.files, DOMAIN req[p].pre.files \ paths)

\* A record with an attachment was deleted while another record kept its
\* attachment.
C7_Witness ==
    \E p \in Procs :
        /\ Done(p, {"delete"})
        /\ req[p].resp.status = 200
        /\ attachments_of(req[p].pre.db, req[p].arg) # {}
        /\ DOMAIN db.attachments # {}
        /\ DOMAIN files # {}

\* The text fields of a record that a payload sets.
TextFields == MutableFields \ {"impact_types"}

\* The value a payload submits for a field: absent fields submit nothing.
Submitted(data, k) == IF k \in DOMAIN data THEN data[k] ELSE None

\* The value read back for a submitted field: the snippet text "null"
\* stands for an absent snippet.
ReadBack(data, k) ==
    IF k = "supporting_evidence_snippet" /\ Submitted(data, k) = "null"
    THEN None
    ELSE Submitted(data, k)

\* What get answers for the record a finished request wrote.
GetAfter(p) == get_log_record_by_id_response(db, req[p].resp.body.id)

\* C8 as stated: after a successful create, get of the returned id returns
\* every submitted field unchanged, impact_types as the submitted list.
C8_RoundTripEveryField ==
    \A p \in Procs :
        (Done(p, {"create"}) /\ req[p].resp.status = 201)
        => /\ GetAfter(p).status = 200
           /\ \A k \in TextFields : GetAfter(p).body[k] = Submitted(req[p].data, k)
           /\ GetAfter(p).body.impact_types = json_loads(req[p].data.impact_types).items

\* C8: after a successful create, get of the returned id returns every
\* submitted field unchanged, except that a supporting_evidence_snippet
\* submitted as the text "null" is returned as absent; impact_types is the
\* submitted list in the same order.
C8_RoundTripExceptNullText ==
    \A p \in Procs :
        (Done(p, {"create"}) /\ req[p].resp.status = 201)
        => /\ GetAfter(p).status = 200
           /\ \A k \in TextFields : GetAfter(p).body[k] = ReadBack(req[p].data, k)
           /\ GetAfter(p).body.impact_types = json_loads(req[p].data.impact_types).items

\* A record with every field and two impact types was created.
C8_Witness ==
    \E p \in Procs :
        /\ Done(p, {"create"})
        /\ req[p].resp.status = 201
        /\ DOMAIN req[p].data = MutableFields
        /\ Len(GetAfter(p).body.impact_types) = 2

\* The update of an existing record by a logged-in user with a valid
\* payload.
ValidUpdate(p) ==
    /\ Done(p, {"update"})
    /\ req[p].pre.session # 0
    /\ req[p].arg \in DOMAIN req[p].pre.db.log_records
    /\ req[p].data \in ValidPayloads

\* C9 as stated: update of an existing record with a valid payload X
\* succeeds, and get then returns X for every mutable field.
C9_UpdateReturnsPayload ==
    \A p \in Procs :
        ValidUpdate(p)
        => /\ req[p].resp.status = 200
           /\ GetAfter(p).status = 200
           /\ \A k \in TextFields : GetAfter(p).body[k] = Submitted(req[p].data, k)
           /\ GetAfter(p).body.impact_types = json_loads(req[p].data.impact_types).items

\* C9: update of an existing record with a valid payload X succeeds whatever
\* the record held (X itself included), and get then returns X for every
\* mutable field, an optional field absent from X being returned as absent;
\* only a supporting_evidence_snippet given as the text "null" is returned
\* as absent too.
C9_UpdateReplacesEveryField ==
    \A p \in Procs :
        ValidUpdate(p)
        => /\ req[p].resp.status = 200
           /\ req[p].resp.body.id = req[p].arg
           /\ GetAfter(p).status = 200
           /\ \A k \in TextFields : GetAfter(p).body[k] = ReadBack(req[p].data, k)
           /\ GetAfter(p).body.impact_types = json_loads(req[p].data.impact_types).items

\* An update without optional fields cleared the optional fields of a
\* record that had them all.
C9_Witness ==
    \E p \in Procs :
        /\ ValidUpdate(p)
        /\ req[p].resp.status = 200
        /\ req[p].data = BaseData
        /\ \A k \in TextFields : req[p].pre.db.log_records[req[p].arg][k] # None
        /\ GetAfter(p).body.time_of_incident = None

\* The rows of a table that belong to a record.
RowsOf(d, id) == {a \in DOMAIN d.attachments : d.attachments[a].log_record_id = id}

\* C10 as stated: get by id returns the record with impact_types as a list
\* and with an attachment_count equal to the number of its Attachment rows.
C10_GetByIdHasCount ==
    \A p \in Procs :
        (Done(p, {"get"}) /\ req[p].resp.status = 200)
        => /\ req[p].resp.body.impact_types
                = json_loads(db.log_records[req[p].arg].impact_types).items
           /\ "attachment_count" \in DOMAIN req[p].resp.body
           /\ req[p].resp.body.attachment_count = Cardinality(RowsOf(db, req[p].arg))

\* C10: get by id returns the record with impact_types as a list and
\* carries no attachment_count; the count of a record's Attachment rows is
\* in the record's entry of the list endpoint, and is 1 for a record
\* created with exactly one valid file.
C10_GetByIdListHasCount ==
    \A p \in Procs :
        /\ (Done(p, {"get"}) /\ req[p].resp.status = 200)
            => /\ req[p].resp.body.id = req[p].arg
               /\ req[p].resp.body.impact_types
                    = json_loads(db.log_records[req[p].arg].impact_types).items
               /\ "attachment_count" \notin DOMAIN req[p].resp.body
        /\ (Done(p, {"list"}) /\ req[p].resp.status = 200)
            => \A i \in DOMAIN req[p].resp.body :
                LET e == req[p].resp.body[i]
                IN /\ e.attachment_count = Cardinality(RowsOf(db, e.id))
                   /\ e.impact_types = json_loads(db.log_records[e.id].impact_types).items
        /\ ( /\ Done(p, {"create"})
             /\ req[p].resp.status = 201
             /\ Cardinality(NamedParts(req[p].in_files)) = 1 )
            => list_entry(db, req[p].resp.body.id).attachment_count = 1

\* A record with two impact types and one attachment was read by id.
C10_Witness ==
    \E p \in Procs :
        /\ Done(p, {"get"})
        /\ req[p].resp.status = 200
        /\ Len(req[p].resp.body.impact_types) = 2
        /\ Cardinality(RowsOf(db, req[p].arg)) = 1

\* Whether a query gives a parameter: it is present and not empty.
Given(args, k) == k \in DOMAIN args /\ args[k] # ""

\* Whether a record passes the filters a query gives.
Wanted(row, args) ==
    /\ Given(args, "category") => row.category = args.category
    /\ Given(args, "start_date") =>
            TextRank(row.date_of_incident) >= TextRank(args.start_date)
    /\ Given(args, "end_date") =>
            TextRank(row.date_of_incident) <= TextRank(args.end_date)

\* The sort column of a query and the rank of an entry in it.
SortColumn(args) == IF "sort_by" \in DOMAIN args THEN args.sort_by ELSE "date_of_incident"
Ascends(args) == "sort_order" \in DOMAIN args /\ args.sort_order \in {"asc", "ASC"}
ColumnRank(e, col) == IF col = "created_at" THEN e.created_at ELSE TextRank(e[col])

\* C11: a successful list returns exactly the records that pass the given
\* filters, each once, ordered by the sort_by column in the requested order
\* (descending by default), equal values of the column by created_at
\* descending.
C11_ListFiltersAndOrder ==
    \A p \in Procs :
        (Done(p, {"list"}) /\ req[p].resp.status = 200)
        => LET body == req[p].resp.body
               args == req[p].data
               col == SortColumn(args)
               hits == {id \in DOMAIN db.log_records : Wanted(db.log_records[id], args)}
           IN /\ {body[i].id : i \in DOMAIN body} = hits
              /\ Len(body) = Cardinality(hits)
              /\ \A i \in DOMAIN body :
                    \A k \in MutableFields \ {"impact_types"} :
                        body[i][k] = db.log_records[body[i].id][k]
              /\ \A i \in 1..(Len(body) - 1) :
                    LET ka == ColumnRank(body[i], col)
                        kb == ColumnRank(body[i + 1], col)
                    IN \/ IF Ascends(args) THEN ka < kb ELSE ka > kb
                       \/ ka = kb /\ body[i].created_at >= body[i + 1].created_at

\* The scenario: category A, ascending date; two records of one date and
\* different creation times are returned, and a record of category B is not.
C11_Witness ==
    \E p \in Procs :
        /\ Done(p, {"list"})
        /\ req[p].resp.status = 200
        /\ req[p].data = [category |-> "A", sort_by |-> "date_of_incident", sort_order |-> "asc"]
        /\ Len(req[p].resp.body) = 2
        /\ req[p].resp.body[1].date_of_incident = req[p].resp.body[2].date_of_incident
        /\ req[p].resp.body[1].created_at > req[p].resp.body[2].created_at

\* The columns a list may be sorted by.
SortAllowList == {"date_of_incident", "category", "created_at"}

\* C12: a list whose sort_by is outside {date_of_incident, category,
\* created_at} is answered 400 without any query having been executed, and
\* the ORDER BY clause of every executed query names a column of that set.
C12_SortByAllowList ==
    \A p \in Procs :
        Done(p, {"list"})
        => /\ (req[p].pre.session # 0 /\ SortColumn(req[p].data) \notin SortAllowList)
                => /\ req[p].resp.status = 400
                   /\ req[p].executed = <<>>
           /\ \A i \in DOMAIN req[p].executed :
                req[p].executed[i][2] \in SortAllowList

\* With records in the table, a list sorted by a column that is not on the
\* allow-list was refused.
C12_Witness ==
    \E p \in Procs :
        /\ Done(p, {"list"})
        /\ req[p].pre.session # 0
        /\ req[p].data = [sort_by |-> "description_of_incident"]
        /\ DOMAIN db.log_records # {}
        /\ req[p].resp.status = 400

\* The files a delete request had to remove, with their directories.
DeletedRows(p) ==
    IF req[p].op = "delete"
    THEN {a \in DOMAIN req[p].pre.db.attachments :
            req[p].pre.db.attachments[a].log_record_id = req[p].arg}
    ELSE {req[p].arg} \cap DOMAIN req[p].pre.db.attachments
DeletedPaths(p) ==
    {FullPath(req[p].pre.db.attachments[a].filepath) : a \in DeletedRows(p)}
    \cap DOMAIN req[p].pre.files
MonthDirs(p) == {dirname(f) : f \in DeletedPaths(p)}
YearDirs(p) == {dirname(d) : d \in MonthDirs(p)}

\* Whether a directory holds a file or a directory now.
HoldsSomething(d) ==
    \/ \E f \in DOMAIN files : dirname(f) = d
    \/ \E e \in dirs : e # d /\ Len(e) > 0 /\ dirname(e) = d

\* C13: when a delete has removed its files, the month directory of each is
\* gone if and only if it is empty, its year directory is gone if and only
\* if it is empty and is not the upload root, and no other directory has
\* changed; the upload root is there in every state.
C13_DirectoryCleanup ==
    /\ UPLOAD_FOLDER \in dirs
    /\ \A p \in Procs :
        (Done(p, {"delete_attachment", "delete"}) /\ req[p].resp.status = 200)
        => /\ DeletedPaths(p) \cap DOMAIN files = {}
           /\ \A d \in MonthDirs(p) : d \in dirs <=> HoldsSomething(d)
           /\ \A y \in YearDirs(p) :
                y \in dirs <=> (HoldsSomething(y) \/ y = UPLOAD_FOLDER)
           /\ dirs \subseteq req[p].pre.dirs
           /\ req[p].pre.dirs \ dirs \subseteq MonthDirs(p) \cup YearDirs(p)

\* An attachment delete removed the file and its month directory while the
\* year directory, which holds another month, stayed.
C13_Witness ==
    \E p \in Procs :
        /\ Done(p, {"delete_attachment"})
        /\ req[p].resp.status = 200
        /\ \E d \in MonthDirs(p) : d \notin dirs /\ dirname(d) \in dirs
                                    /\ dirname(d) # UPLOAD_FOLDER

\* Whether the thing a delete request names was there when it arrived.
DeleteTargetExisted(p) ==
    IF req[p].op = "delete"
    THEN req[p].arg \in DOMAIN req[p].pre.db.log_records
    ELSE req[p].arg \in DOMAIN req[p].pre.db.attachments

\* Whether the rows a delete request names are out of the committed tables.
RowsGone(p) ==
    /\ DeletedRows(p) \cap DOMAIN db.attachments = {}
    /\ req[p].op = "delete" => req[p].arg \notin DOMAIN db.log_records

\* C14: a delete touches no file or directory before the removal of its rows
\* is committed; once it is committed the request answers 200 and the rows
\* stay deleted even when removing a file or a directory fails, and every
\* file whose removal did not fail is removed.
C14_DeleteCommitsThenUnlinks ==
    \A p \in Procs :
        req[p].op \in {"delete", "delete_attachment"}
        => /\ req[p].pc \in {"delete_rows", "delete_commit", "except", "cleanup"}
                => files = req[p].pre.files /\ dirs = req[p].pre.dirs
           /\ req[p].pc \in {"unlink", "rmdir_month", "rmdir_year"}
                => DeleteTargetExisted(p) /\ RowsGone(p)
           /\ (req[p].pc = "done" /\ (files # req[p].pre.files \/ dirs # req[p].pre.dirs))
                => DeleteTargetExisted(p) /\ RowsGone(p)
           /\ (req[p].pc = "done" /\ DeleteTargetExisted(p) /\ RowsGone(p))
                => /\ req[p].resp.status = 200
                   /\ req[p].resp.kind = "json"
                   /\ Cardinality(DeletedPaths(p) \cap DOMAIN files) <= req[p].faults

\* A record delete answered 200 although the removal of its first file
\* failed; its second file was still removed.
C14_Witness ==
    \E p \in Procs :
        /\ Done(p, {"delete"})
        /\ req[p].resp.status = 200
        /\ req[p].faults > 0
        /\ RowsGone(p)
        /\ Cardinality(DeletedPaths(p)) = 2
        /\ Cardinality(DeletedPaths(p) \cap DOMAIN files) = 1
        /\ \E a, b \in DeletedRows(p) :
            /\ a < b
            /\ FullPath(req[p].pre.db.attachments[a].filepath) \in DOMAIN files
            /\ FullPath(req[p].pre.db.attachments[b].filepath) \notin DOMAIN files

\* Whether a credential field is empty or missing.
Empty(text) == text = "" \/ text = None

\* The credential rows that held a username when the request arrived.
Holders(p) ==
    {u \in DOMAIN req[p].pre.db.users :
        req[p].pre.db.users[u].username = req[p].data.username}

\* C15: register with an empty username or password answers 400; with a
\* username already taken it answers 409 and leaves the credential table and
\* the session as they were; otherwise it answers 201, adds exactly one
\* credential row, for that username and password, and the session is the
\* new identity's.
C15_Register ==
    \A p \in Procs :
        Done(p, {"register"})
        => IF Empty(req[p].data.username) \/ Empty(req[p].data.password)
           THEN /\ req[p].resp.status = 400
                /\ db = req[p].pre.db
                /\ session = req[p].pre.session
           ELSE IF Holders(p) # {}
           THEN /\ req[p].resp.status = 409
                /\ db = req[p].pre.db
                /\ session = req[p].pre.session
           ELSE /\ req[p].resp.status = 201
                /\ \E u \in DOMAIN db.users \ DOMAIN req[p].pre.db.users :
                    /\ DOMAIN db.users = DOMAIN req[p].pre.db.users \cup {u}
                    /\ db.users[u].username = req[p].data.username
                    /\ db.users[u].password_hash
                            = generate_password_hash(req[p].data.password)
                    /\ session = u
                /\ \A v \in DOMAIN req[p].pre.db.users : db.users[v] = req[p].pre.db.users[v]

\* While bob was logged in, a register of the taken name alice was refused.
C15_Witness ==
    \E p \in Procs :
        /\ Done(p, {"register"})
        /\ req[p].resp.status = 409
        /\ req[p].data.username = "alice"
        /\ session # 0
        /\ db.users[session].username = "bob"

\* Whether a login request names an existing username with its password.
GoodLogin(p) ==
    \E u \in Holders(p) :
        req[p].pre.db.users[u].password_hash = generate_password_hash(req[p].data.password)

\* C16 as stated: login establishes a session for the named identity if the
\* username exists and the password matches, and otherwise answers 401 and
\* leaves the session as it was.
C16_LoginOrUnauthorized ==
    \A p \in Procs :
        Done(p, {"login"})
        => IF GoodLogin(p)
           THEN /\ req[p].resp.status = 200
                /\ session \in Holders(p)
           ELSE /\ req[p].resp.status = 401
                /\ session = req[p].pre.session

\* C16: login establishes a session for the named identity if and only if
\* the username exists and the password matches its stored hash; otherwise
\* the session is as it was, and the answer is 400 when the username or the
\* password is empty or missing and 401 in every other case.
C16_LoginIffCredentialsMatch ==
    \A p \in Procs :
        Done(p, {"login"})
        => /\ db = req[p].pre.db
           /\ IF GoodLogin(p)
              THEN /\ req[p].resp.status = 200
                   /\ session \in Holders(p)
              ELSE /\ session = req[p].pre.session
                   /\ req[p].resp.status =
                        IF Empty(req[p].data.username) \/ Empty(req[p].data.password)
                        THEN 400 ELSE 401

\* While bob was logged in, a login as alice with bob's password was
\* refused and bob stayed logged in.
C16_Witness ==
    \E p \in Procs :
        /\ Done(p, {"login"})
        /\ req[p].resp.status = 401
        /\ Holders(p) # {}
        /\ req[p].data = Credentials("alice", "pw2")
        /\ session # 0
        /\ db.users[session] = [username |-> "bob", password_hash |-> generate_password_hash("pw2")]

\* The fields a record payload must carry.
RequiredNames ==
    {"date_of_incident", "category", "description_of_incident", "impact_types"}

\* Whether a required field is missing from a payload or empty in it.
Lacks(data, f) ==
    \/ f \notin DOMAIN data
    \/ IF f = "impact_types" THEN data[f] = <<>> ELSE data[f] = ""

\* Whether a payload fails the validation of the fields.
BadFields(data) ==
    \/ \E f \in RequiredNames : Lacks(data, f)
    \/ json_loads(data.impact_types).kind # "list"

\* A create, or an update of an existing record, by a logged-in user.
WriteRequest(p) ==
    /\ req[p].op \in {"create", "update"}
    /\ req[p].pre.session # 0
    /\ req[p].op = "update" => req[p].arg \in DOMAIN req[p].pre.db.log_records

\* A validation error has been raised in the request and not yet handled.
RaisedValueError(p) ==
    /\ req[p].op \in {"create", "update"}
    /\ req[p].pc = "except"
    /\ req[p].exc = "ValueError"

\* Whether the raised error is about a file of the request.
FileError(p) == req[p].err[1] = "File type not allowed for"

\* C17 as stated: when a validation error is raised in create or update, the
\* request has written no file and has inserted or changed no row, in the
\* transaction or outside it.
C17_ValidationBeforeMutation ==
    \A p \in Procs :
        RaisedValueError(p)
        => /\ files = req[p].pre.files
           /\ req[p].tx = req[p].pre.db
           /\ db = req[p].pre.db

\* C17: in create and update every payload with a missing or empty required
\* field or with an impact_types that is not a list is refused with 400, and
\* when that error is raised no file has been written and no row has been
\* inserted or changed; a disallowed file extension is raised after the
\* record row was written in the open transaction and after the earlier
\* files of the request were saved, nothing being committed, and the request
\* then ends with 400 and with tables and files as it found them.
C17_FieldsBeforeMutationFilesUndone ==
    \A p \in Procs :
        /\ (RaisedValueError(p) /\ ~FileError(p))
            => /\ BadFields(req[p].data)
               /\ files = req[p].pre.files
               /\ req[p].tx = req[p].pre.db
               /\ db = req[p].pre.db
        /\ (RaisedValueError(p) /\ FileError(p))
            => /\ ~BadFields(req[p].data)
               /\ db = req[p].pre.db
               /\ req[p].log_id \in DOMAIN req[p].tx.log_records
               /\ DOMAIN files \ DOMAIN req[p].pre.files
                    = {req[p].temp_saved_files[i] : i \in DOMAIN req[p].temp_saved_files}
        /\ (WriteRequest(p) /\ req[p].pc = "done" /\ BadFields(req[p].data))
            => /\ req[p].resp.status = 400
               /\ req[p].exc = "ValueError"
               /\ req[p].resp.body[2] \in RequiredNames
               /\ db = req[p].pre.db
               /\ files = req[p].pre.files
        /\ (req[p].op \in {"create", "update"} /\ req[p].pc = "done"
                /\ req[p].exc = "ValueError")
            => /\ req[p].resp.status = 400
               /\ db = req[p].pre.db
               /\ files = req[p].pre.files

\* The error about a disallowed file is raised when the record row is in
\* the transaction and an earlier file of the request is on disk.
C17_Witness ==
    \E p \in Procs :
        /\ RaisedValueError(p)
        /\ FileError(p)
        /\ req[p].op = "create"
        /\ req[p].tx.log_records # req[p].pre.db.log_records
        /\ Len(req[p].temp_saved_files) = 1
        /\ files # req[p].pre.files

\* C18: every request, whatever step of its handler failed, ends with a JSON
\* response (or the file it asked for) that carries an HTTP status; no
\* exception leaves a handler.
C18_NoFailureEscapes ==
    \A p \in Procs :
        req[p].pc = "done"
        => /\ req[p].resp.kind \in {"json", "file"}
           /\ req[p].resp.status \in {200, 201, 400, 401, 404, 409, 500}

\* C19: a create or update in which a database statement or the commit
\* failed ends with a server error, with the tables as the request found
\* them and with no file of the request on disk.
C19_DatabaseErrorUndone ==
    \A p \in Procs :
        (Done(p, {"create", "update"}) /\ req[p].exc = "sqlite3.Error")
        => /\ req[p].resp.status = 500
           /\ db = req[p].pre.db
           /\ files = req[p].pre.files

\* Whether the impact_types of a payload is the text of a non-empty list.
NonEmptyList(data) ==
    /\ "impact_types" \in DOMAIN data
    /\ json_loads(data.impact_types).kind = "list"
    /\ json_loads(data.impact_types).items # <<>>

\* C20: a create or update whose impact_types is absent, is not a list or is
\* the empty list ends with BadRequest, with no row and no file written.
C20_ImpactTypesNonEmptyList ==
    \A p \in Procs :
        (Done(p, {"create", "update"}) /\ WriteRequest(p)
            /\ ~NonEmptyList(req[p].data))
        => /\ req[p].resp.status = 400
           /\ db = req[p].pre.db
           /\ files = req[p].pre.files

\* An update by a logged-in user of an id that no record has.
UpdateOfAbsent(p) ==
    /\ Done(p, {"update"})
    /\ req[p].pre.session # 0
    /\ req[p].arg \notin DOMAIN req[p].pre.db.log_records

\* C21: an update of an id that no record has ends with 404 whatever its
\* payload and its files are, and leaves the tables, the files and the
\* directories as it found them.
C21_UpdateOfAbsentIsNotFound ==
    \A p \in Procs :
        UpdateOfAbsent(p)
        => /\ req[p].resp = Json(404, "Log record not found")
           /\ db = req[p].pre.db
           /\ files = req[p].pre.files
           /\ dirs = req[p].pre.dirs

\* An update of an absent id has ended that carried invalid fields and two
\* files, one of them of a disallowed type, while another record exists.
C21_Witness ==
    \E p \in Procs :
        /\ UpdateOfAbsent(p)
        /\ BadFields(req[p].data)
        /\ Len(req[p].in_files) = 2
        /\ \E i \in 1..2 : ~allowed_file(req[p].in_files[i].filename)
        /\ req[p].pre.db.log_records # EmptyFn

\* A finished create or update that had opened its transaction: it was not
\* turned away by the session gate or by a failing connect.
Opened(p) ==
    /\ Done(p, {"create", "update"})
    /\ req[p].resp # unauthorized
    /\ req[p].resp # Json(500, "unable to open database file")

\* Where a finished request's transaction stands.
EndedRight(p) ==
    /\ ~req[p].in_tx
    /\ ~req[p].wlock
    /\ req[p].ended \in {{"committed"}, {"rolled back"}}
    /\ req[p].resp.status \notin {200, 201} => req[p].ended = {"rolled back"}
    /\ req[p].ended = {"rolled back"} => db = req[p].pre.db
    /\ req[p].ended = {"committed"}
        => /\ req[p].resp.status \in {200, 201}
           /\ req[p].log_id \in DOMAIN db.log_records
           /\ \A k \in MutableFields :
                db.log_records[req[p].log_id][k] = bound_values(req[p].data)[k]

\* C22: a create or update whose transaction is open comes to its end; at
\* its end the transaction is committed or rolled back and not both, the
\* connection holds no transaction and no lock, and a request answered with
\* an error status is rolled back, the tables being as it found them.
C22_CommittedOrRolledBack ==
    /\ [](\A p \in Procs : Opened(p) => EndedRight(p))
    /\ \A p \in Procs :
        (req[p].in_tx /\ req[p].op \in {"create", "update"})
            ~> (Opened(p) /\ EndedRight(p))

\* A request has ended rolled back because its ROLLBACK statement failed,
\* with a file of it on disk.
C22_Witness ==
    \E p \in Procs :
        /\ Opened(p)
        /\ req[p].resp = Unhandled
        /\ req[p].ended = {"rolled back"}
        /\ files # req[p].pre.files

\* An update that was answered with success.
UpdateDone(p) == Done(p, {"update"}) /\ req[p].resp.status = 200

PassesAllowList(filename) ==
    /\ Positions(filename, ".") # {}
    /\ InWords(LowerAll(rsplit_dot(filename)[2]), ALLOWED_EXTENSIONS)

\* C24: a create or update of a logged-in user (update: of an existing
\* record) whose named files all pass the allow-list check commits, with one
\* Attachment row per file, in the order of the files: the row's
\* stored_filename is a name no other row has, ends in the file's extension,
\* and its filepath is <year>/<month>/<stored_filename>, where the file is.
C24_AllowedFileIsStored ==
    \A p \in Procs :
        ( /\ Done(p, {"create", "update"})
          /\ WriteRequest(p)
          /\ ~BadFields(req[p].data)
          /\ \A i \in NamedParts(req[p].in_files) :
                PassesAllowList(req[p].in_files[i].filename) )
        => /\ req[p].resp.status \in {200, 201}
           /\ Cardinality(NewRows(p)) = Cardinality(NamedParts(req[p].in_files))
           /\ LET rows == Ascending(NewRows(p))
                  parts == Ascending(NamedParts(req[p].in_files))
              IN \A i \in 1..Len(rows) :
                    LET row == db.attachments[rows[i]]
                        part == req[p].in_files[parts[i]]
                    IN /\ row.filename = part.filename
                       /\ LowerAll(rsplit_dot(row.stored_filename)[2])
                            = LowerAll(rsplit_dot(part.filename)[2])
                       /\ row.filepath = path_join(Calendar[now], <<row.stored_filename>>)
                       /\ FullPath(row.filepath) \in DOMAIN files
                       /\ \A a \in DOMAIN db.attachments \ {rows[i]} :
                            db.attachments[a].stored_filename # row.stored_filename

\* The files under the upload root are exactly those the rows name.
FilesMatchRows(d, fs) ==
    DOMAIN fs = {FullPath(d.attachments[a].filepath) : a \in DOMAIN d.attachments}

\* C28: a create, update, delete-record or delete-attachment request that met
\* no failing file or directory operation, and that found the files on disk
\* to be exactly those of the Attachment rows, leaves them so when it ends.
C28_NoOrphanFiles ==
    \A p \in Procs :
        ( /\ Done(p, {"create", "update", "delete", "delete_attachment"})
          /\ req[p].disk_faults = 0
          /\ FilesMatchRows(req[p].pre.db, req[p].pre.files) )
        => FilesMatchRows(db, files)

\* Two register requests for one username, neither of which found the name
\* taken when it arrived, have both ended.
RegisterRace(p, q) ==
    /\ p # q
    /\ Done(p, {"register"}) /\ Done(q, {"register"})
    /\ req[p].data.username = req[q].data.username
    /\ get_by_username(req[p].pre.db, req[p].data.username) = {}
    /\ get_by_username(req[q].pre.db, req[q].data.username) = {}

\* C26: no username is ever in two credential rows, and of two register
\* requests for one username that overlap one is answered 201 and the other
\* 409.
C26_RegisterRace ==
    /\ \A u \in RegisterRaceProfile.usernames : Cardinality(get_by_username(db, u)) <= 1
    /\ \A p, q \in Procs :
        RegisterRace(p, q)
        => {req[p].resp.status, req[q].resp.status} = {201, 409}

\* C25: a download that runs while the attachment or its record is being
\* deleted ends with the content of the file or with 404.
C25_DownloadDuringDelete ==
    \A p \in Procs :
        Done(p, {"download"})
        => \/ /\ req[p].resp.status = 200
              /\ req[p].resp.kind = "file"
              /\ req[p].resp.body.content = ReportPdf.content
           \/ req[p].resp.status = 404

\* A create or update has ended whose file could not be written because
\* its directory was gone.
DirectoryGone(p) ==
    /\ Done(p, {"create", "update"})
    /\ req[p].exc = "Exception"
    /\ req[p].err = "OSError"

\* C27: with creates and updates that write files interleaved with deletes
\* that remove files and empty directories, every committed Attachment row
\* has its file on disk, in a directory that exists; and a create or update
\* whose directory was removed under it ends rolled back with a server
\* error, no record and no Attachment row of it being committed and no file
\* of it being left.
C27_CommittedRowsHaveFiles ==
    /\ \A a \in DOMAIN db.attachments :
        /\ FullPath(db.attachments[a].filepath) \in DOMAIN files
        /\ dirname(FullPath(db.attachments[a].filepath)) \in dirs
    /\ \A p \in Procs :
        DirectoryGone(p)
        => /\ req[p].ended = {"rolled back"}
           /\ req[p].resp.status = 500
           /\ DOMAIN db.log_records \subseteq DOMAIN req[p].pre.db.log_records
           /\ DOMAIN db.attachments \subseteq DOMAIN req[p].pre.db.attachments
           /\ DOMAIN files \subseteq DOMAIN req[p].pre.files

\* A create has ended rolled back because a delete removed the month
\* directory between its test for the directory and its write.
C27_Witness ==
    \E p \in Procs :
        /\ DirectoryGone(p)
        /\ req[p].op = "create"
        /\ path_join(UPLOAD_FOLDER, Calendar[now]) \in req[p].pre.dirs
        /\ path_join(UPLOAD_FOLDER, Calendar[now]) \notin dirs

\* Every Attachment row of d belongs to a record of d.
ReferentialIntegrity(d) ==
    \A a \in DOMAIN d.attachments :
        d.attachments[a].log_record_id \in DOMAIN d.log_records

\* Worker p commits an update.
UpdateCommits(p) ==
    /\ req[p].op = "update"
    /\ req[p].pc = "commit"
    /\ "committed" \in req'[p].ended

\* C29: under any interleaving of creates, updates and deletes every
\* committed Attachment row refers to a LogRecord that exists; an update
\* commits only while its record is still there, so an update with files
\* that overlaps a delete of its record commits no Attachment for the
\* deleted record.
C29_ReferentialIntegrity ==
    /\ [](ReferentialIntegrity(db))
    /\ [][\A p \in Procs :
            UpdateCommits(p)
            => /\ req[p].log_id \in DOMAIN db.log_records
               /\ req[p].log_id \in DOMAIN db'.log_records
               /\ ReferentialIntegrity(db')]_vars

\* An update with a file has ended with "database is locked" and nothing
\* committed, its record having been deleted while it ran.
C29_Witness ==
    \E p \in Procs :
        /\ Done(p, {"update"})
        /\ req[p].in_files # <<>>
        /\ req[p].exc = "sqlite3.Error"
        /\ req[p].ended = {"rolled back"}
        /\ req[p].arg \in DOMAIN req[p].pre.db.log_records
        /\ req[p].arg \notin DOMAIN db.log_records
        /\ ReferentialIntegrity(db)
=============================================================================
